---- MODULE Spec2Model ----
(***************************************************************************)
(* go-tw: a launcher that resolves a tailwindcss version, downloads the    *)
(* binary into a cache directory, evicts other versions and runs it.       *)
(*                                                                         *)
(* Strings of the program are sequences of one-character strings, so that  *)
(* prefix, suffix and path normalisation are computed as the Go library    *)
(* computes them.  Paths follow the Unix rules of path/filepath.           *)
(***************************************************************************)
EXTENDS Integers, Sequences, FiniteSets, TLC

VARIABLES
    fs,        \* the file system: absolute clean path -> entry
    pc,        \* per process: control location
    top,       \* per process: the function the process was started in
    server,    \* the download server: the bodies, error statuses and transport errors it may answer with
    lat,       \* per process: the frame of GetLatestVersion or GetCurrentVersion called on its own
    fs0,       \* per process: the file system when the process started (history)
    main,      \* per process: the locals of execute
    dl,        \* per process: the parameters and locals of Client.Download
    ev,        \* per process: the parameters and locals of fs.DeleteOtherVersions
    wr,        \* per process: the parameters of fs.Write called on its own
    ret,       \* per process: what the top function returned
    trace      \* per process: the externally visible events so far, in order

vars == <<fs, fs0, pc, top, server, lat, main, dl, ev, wr, ret, trace>>

(***************************************************************************)
(* Bounds of the model.                                                    *)
(***************************************************************************)
MaxPathLen == 5
MaxBody == 2
MaxRuns == 2
MaxArgs == 5
MaxLauncherArgs == 3

Procs == {1, 2}

(***************************************************************************)
(* Strings.                                                                *)
(***************************************************************************)
Sep == "/"

HasPrefix(s, p) == Len(s) >= Len(p) /\ SubSeq(s, 1, Len(p)) = p

HasSuffix(s, p) == Len(s) >= Len(p) /\ SubSeq(s, Len(s) - Len(p) + 1, Len(s)) = p

TrimPrefix(s, p) == IF HasPrefix(s, p) THEN SubSeq(s, Len(p) + 1, Len(s)) ELSE s

TrimSuffix(s, p) == IF HasSuffix(s, p) THEN SubSeq(s, 1, Len(s) - Len(p)) ELSE s

Last(s) == s[Len(s)]

Front(s) == SubSeq(s, 1, Len(s) - 1)

(***************************************************************************)
(* path/filepath on Unix.  Split cuts a path at every separator; Clean     *)
(* drops empty and "." elements, cancels "x/..", drops ".." at the root,   *)
(* and yields "." for an empty result.                                     *)
(***************************************************************************)
RECURSIVE SplitFrom(_, _, _)
SplitFrom(s, i, cur) ==
    IF i > Len(s) THEN <<cur>>
    ELSE IF s[i] = Sep THEN <<cur>> \o SplitFrom(s, i + 1, <<>>)
    ELSE SplitFrom(s, i + 1, Append(cur, s[i]))

Split(s) == SplitFrom(s, 1, <<>>)

RECURSIVE JoinSep(_)
JoinSep(elems) ==
    IF elems = <<>> THEN <<>>
    ELSE IF Len(elems) = 1 THEN elems[1]
    ELSE elems[1] \o <<Sep>> \o JoinSep(Tail(elems))

IsAbs(path) == Len(path) > 0 /\ path[1] = Sep

Dot == <<".">>

DotDot == <<".", ".">>

RECURSIVE CleanElems(_, _, _)
CleanElems(elems, rooted, out) ==
    IF elems = <<>> THEN out
    ELSE LET e == Head(elems) rest == Tail(elems) IN
         IF e = <<>> \/ e = Dot THEN CleanElems(rest, rooted, out)
         ELSE IF e = DotDot THEN
              IF out # <<>> /\ Last(out) # DotDot THEN CleanElems(rest, rooted, Front(out))
              ELSE IF rooted THEN CleanElems(rest, rooted, out)
              ELSE CleanElems(rest, rooted, Append(out, e))
         ELSE CleanElems(rest, rooted, Append(out, e))

\* The elements of the cleaned path, without the root.
Elems(path) == CleanElems(Split(path), IsAbs(path), <<>>)

Clean(path) ==
    IF IsAbs(path) THEN <<Sep>> \o JoinSep(Elems(path))
    ELSE IF Elems(path) = <<>> THEN Dot
    ELSE JoinSep(Elems(path))

\* filepath.Join of two elements: empty elements are ignored, the result is cleaned.
Join(a, b) ==
    IF a = <<>> /\ b = <<>> THEN <<>>
    ELSE IF a = <<>> THEN Clean(b)
    ELSE IF b = <<>> THEN Clean(a)
    ELSE Clean(a \o <<Sep>> \o b)

(***************************************************************************)
(* Errors are chains of error values, outermost first: fmt.Errorf with %w  *)
(* prepends to the chain and errors.Is looks for a value in it.  The empty *)
(* chain is nil.                                                           *)
(***************************************************************************)
Nil == <<>>

ErrIs(err, target) == \E i \in 1..Len(err) : err[i] = target

Wrap_DropsCause(context, err) == <<context>>

Wrap(context, err) == <<context>> \o err

(***************************************************************************)
(* The file system maps the location of every existing entry to its kind,  *)
(* contents and owner-execute bit.  A location is the sequence of names    *)
(* from the root that the operating system resolves a path to; relative    *)
(* paths are resolved against the working directory.                       *)
(***************************************************************************)
Cwd == <<"/", "w">>

Loc(path) == IF IsAbs(path) THEN Elems(path) ELSE Elems(Cwd \o <<Sep>> \o path)

File(data, exec) == [kind |-> "file", data |-> data, exec |-> exec]

Dir == [kind |-> "dir", data |-> <<>>, exec |-> TRUE]

IsDirLoc(f, t) == t \in DOMAIN f /\ f[t].kind = "dir"

ExistsAt(f, path) == Loc(path) \in DOMAIN f

IsDirAt(f, path) == IsDirLoc(f, Loc(path))

IsFileAt(f, path) == ExistsAt(f, path) /\ f[Loc(path)].kind = "file"

Put(f, t, entry) == [q \in DOMAIN f \cup {t} |-> IF q = t THEN entry ELSE f[q]]

Drop(f, t) == [q \in DOMAIN f \ {t} |-> f[q]]

Create_KeepsContents(f, path, fault) ==
    LET t == Loc(path) IN
    IF fault \/ t = <<>> \/ IsDirLoc(f, t) \/ ~IsDirLoc(f, Front(t))
    THEN [fs |-> f, err |-> <<"os.Create">>]
    ELSE [fs |-> Put(f, t, IF t \in DOMAIN f THEN f[t] ELSE File(<<>>, FALSE)), err |-> Nil]

\* os.Create: creates the file or truncates an existing one (its mode is kept).
\* fault is a failure of the operating system (permissions, full disk).
Create(f, path, fault) ==
    LET t == Loc(path) IN
    IF fault \/ t = <<>> \/ IsDirLoc(f, t) \/ ~IsDirLoc(f, Front(t))
    THEN [fs |-> f, err |-> <<"os.Create">>]
    ELSE [fs |-> Put(f, t, File(<<>>, IF t \in DOMAIN f THEN f[t].exec ELSE FALSE)),
          err |-> Nil]

(***************************************************************************)
(* fs.Write.  A reader is the data it yields and failAt: -1 when it reads  *)
(* to the end, else the number of bytes copied before io.Copy fails.       *)
(***************************************************************************)
Reader(data, failAt) == [data |-> data, failAt |-> failAt]

IsInside_NoSeparator(cleanPath, cleanDir) == HasPrefix(cleanPath, cleanDir)

IsInside(cleanPath, cleanDir) == HasPrefix(cleanPath, cleanDir \o <<Sep>>)

SizeMismatch_OnlyShort(expectedSize, written) == expectedSize > 0 /\ written < expectedSize

SizeMismatch(expectedSize, written) == expectedSize > 0 /\ written # expectedSize

Write(f, reader, path, downloadDir, expectedSize, createFault) ==
    LET cleanPath == Clean(path)
        cleanDir == Clean(downloadDir)
    IN  IF ~IsInside(cleanPath, cleanDir) THEN [fs |-> f, err |-> <<"ErrInvalidPath">>]
        ELSE LET c == Create(f, cleanPath, createFault) IN
             IF c.err # Nil THEN c
             ELSE LET written == IF reader.failAt >= 0 THEN reader.failAt ELSE Len(reader.data)
                      t == Loc(cleanPath)
                      old == c.fs[t].data
                      f2 == [c.fs EXCEPT ![t].data = SubSeq(reader.data, 1, written)
                                                      \o SubSeq(old, written + 1, Len(old))]
                  IN  IF reader.failAt >= 0 THEN [fs |-> f2, err |-> <<"io.Copy">>]
                      ELSE IF SizeMismatch(expectedSize, written)
                           THEN [fs |-> f2, err |-> <<"ErrIncompleteDownload">>]
                      ELSE [fs |-> f2, err |-> Nil]

(***************************************************************************)
(* Processes.  A process that is "off" takes no step.                      *)
(***************************************************************************)
Off == [p \in Procs |-> "off"]

NoFrame == [p \in Procs |-> <<>>]

NoRet == [p \in Procs |-> <<>>]

NoTrace == [p \in Procs |-> <<>>]

\* No download server is involved.
NoServer == [bodies |-> {}, statuses |-> {}, errors |-> {}]

Returned(p, fn) == pc[p] = "returned" /\ top[p] = fn

(***************************************************************************)
(* fs.Write called on its own, with every short path over a small alphabet *)
(* as destination.                                                         *)
(***************************************************************************)
Strings(alphabet, n) == UNION {[1..k -> alphabet] : k \in 0..n}

PathChars == {"/", ".", "a"}

WritePaths == Strings(PathChars, MaxPathLen)

WriteDirs == {<<"/", "a">>, <<"/", "a", "/">>, <<"/">>, <<"a">>, <<".", ".">>}

WriteBodies == Strings({"x"}, MaxBody)

WriteFS ==
    (Loc(<<"/">>) :> Dir) @@ (Loc(<<"/", "a">>) :> Dir)
    @@ (Loc(<<"/", "a", "/", "a">>) :> File(<<"o", "o", "o", "o">>, TRUE))
    @@ (Loc(<<"/", "a", "a">>) :> File(<<"o">>, FALSE))
    @@ (Loc(Cwd) :> Dir) @@ (Loc(Cwd \o <<"/", "a">>) :> Dir)

WriteInit ==
    /\ fs = WriteFS
    /\ fs0 = [p \in Procs |-> fs]
    /\ main = NoFrame /\ dl = NoFrame /\ ev = NoFrame
    /\ lat = NoFrame
    /\ server = NoServer
    /\ pc = [Off EXCEPT ![1] = "Write"]
    /\ top = [Off EXCEPT ![1] = "Write"]
    /\ \E path \in WritePaths, dir \in WriteDirs, data \in WriteBodies,
          expectedSize \in -1..(MaxBody + 1), createFault \in BOOLEAN :
         \E failAt \in IF createFault THEN {-1} ELSE -1..Len(data) :
            wr = [NoFrame EXCEPT ![1] =
                       [reader |-> Reader(data, failAt), path |-> path, downloadDir |-> dir,
                        expectedSize |-> expectedSize, createFault |-> createFault]]
    /\ ret = NoRet
    /\ trace = NoTrace

WriteCall(p) ==
    /\ pc[p] = "Write" /\ top[p] = "Write"
    /\ LET a == wr[p]
           r == Write(fs, a.reader, a.path, a.downloadDir, a.expectedSize, a.createFault)
       IN  /\ fs' = r.fs
           /\ ret' = [ret EXCEPT ![p] = r.err]
    /\ pc' = [pc EXCEPT ![p] = "returned"]
    /\ UNCHANGED <<fs0, top, server, lat, main, dl, ev, wr, trace>>

WriteNext == \E p \in Procs : WriteCall(p)

SpecWrite == WriteInit /\ [][WriteNext]_vars

(***************************************************************************)
(* Directory listing and removal.  os.ReadDir returns the entries of a     *)
(* directory sorted by file name (byte order).                             *)
(***************************************************************************)
ByteOrder ==
    <<"-", ".", "/", "0", "1", "2", "3", "4", "5", "6", "7", "8", "9",
      "a", "b", "c", "d", "e", "f", "g", "h", "i", "j", "k", "l", "m",
      "n", "o", "p", "q", "r", "s", "t", "u", "v", "w", "x", "y", "z">>

Byte(c) == CHOOSE i \in 1..Len(ByteOrder) : ByteOrder[i] = c

RECURSIVE StrLess(_, _)
StrLess(a, b) ==
    IF a = <<>> THEN b # <<>>
    ELSE IF b = <<>> THEN FALSE
    ELSE IF a[1] = b[1] THEN StrLess(Tail(a), Tail(b))
    ELSE Byte(a[1]) < Byte(b[1])

RECURSIVE SortByName(_)
SortByName(S) ==
    IF S = {} THEN <<>>
    ELSE LET m == CHOOSE x \in S : \A y \in S : x = y \/ StrLess(x.name, y.name)
         IN  <<m>> \o SortByName(S \ {m})

\* The locations directly inside the directory at location t.
Children(f, t) == {q \in DOMAIN f : q # <<>> /\ Front(q) = t}

\* A directory entry: its name and whether it is a directory.
DirEntry(f, q) == [name |-> Last(q), isDir |-> f[q].kind = "dir"]

ReadDir(f, dir, fault) ==
    LET t == Loc(dir) IN
    IF fault \/ ~IsDirLoc(f, t) THEN [entries |-> <<>>, err |-> <<"os.ReadDir">>]
    ELSE [entries |-> SortByName({DirEntry(f, q) : q \in Children(f, t)}), err |-> Nil]

\* os.Remove: removes a file or an empty directory.
Remove(f, path, fault) ==
    LET t == Loc(path) IN
    IF t \notin DOMAIN f THEN [fs |-> f, err |-> <<"os.ErrNotExist">>]
    ELSE IF fault \/ Children(f, t) # {} THEN [fs |-> f, err |-> <<"os.Remove">>]
    ELSE [fs |-> Drop(f, t), err |-> Nil]

IsNotExist(err) == ErrIs(err, "os.ErrNotExist")

(***************************************************************************)
(* Package fs: the cache directory.                                        *)
(***************************************************************************)
PrefixTailwind == <<"t", "a", "i", "l", "w", "i", "n", "d", "c", "s", "s", "-">>

Exe == <<".", "e", "x", "e">>

RECURSIVE FirstVersion_DirectoriesToo(_, _)
FirstVersion_DirectoriesToo(entries, i) ==
    IF i > Len(entries) THEN [version |-> <<>>, err |-> <<"ErrNotInstalled">>]
    ELSE IF HasPrefix(entries[i].name, PrefixTailwind)
         THEN [version |-> TrimSuffix(TrimPrefix(entries[i].name, PrefixTailwind), Exe),
               err |-> Nil]
    ELSE FirstVersion_DirectoriesToo(entries, i + 1)

\* fs.GetCurrentVersion: the first entry, in listing order, that is no
\* directory and carries the prefix, without the prefix and a trailing .exe.
RECURSIVE FirstVersion(_, _)
FirstVersion(entries, i) ==
    IF i > Len(entries) THEN [version |-> <<>>, err |-> <<"ErrNotInstalled">>]
    ELSE IF entries[i].isDir THEN FirstVersion(entries, i + 1)
    ELSE IF HasPrefix(entries[i].name, PrefixTailwind)
         THEN [version |-> TrimSuffix(TrimPrefix(entries[i].name, PrefixTailwind), Exe),
               err |-> Nil]
    ELSE FirstVersion(entries, i + 1)

GetCurrentVersion(f, path, fault) ==
    LET d == ReadDir(f, path, fault) IN
    IF d.err # Nil THEN [version |-> <<>>, err |-> d.err]
    ELSE FirstVersion(d.entries, 1)

IsOtherVersion_OwnToo(entry, version) ==
    /\ ~entry.isDir
    /\ HasPrefix(entry.name, PrefixTailwind)

IsOtherVersion_DirectoriesToo(entry, version) ==
    /\ HasPrefix(entry.name, PrefixTailwind)
    /\ ~HasSuffix(TrimSuffix(entry.name, Exe), <<"-">> \o version)

\* The test of fs.DeleteOtherVersions on one entry: a file with the prefix
\* whose name, without a trailing .exe, does not end in "-" + version.
IsOtherVersion(entry, version) ==
    /\ ~entry.isDir
    /\ HasPrefix(entry.name, PrefixTailwind)
    /\ ~HasSuffix(TrimSuffix(entry.name, Exe), <<"-">> \o version)

\* What the caller of DeleteOtherVersions does with its result: execute wraps
\* an error and fails, and runs the tool otherwise.  The frame of
\* DeleteOtherVersions is gone once it has returned to execute.
EvictReturn_IgnoresError(p, err) ==
    IF top[p] = "DeleteOtherVersions"
    THEN /\ pc' = [pc EXCEPT ![p] = "returned"]
         /\ ret' = [ret EXCEPT ![p] = err]
         /\ UNCHANGED ev
    ELSE /\ ev' = [ev EXCEPT ![p] = <<>>]
         /\ pc' = [pc EXCEPT ![p] = "run"]
         /\ UNCHANGED ret

EvictReturn(p, err) ==
    IF top[p] = "DeleteOtherVersions"
    THEN /\ pc' = [pc EXCEPT ![p] = "returned"]
         /\ ret' = [ret EXCEPT ![p] = err]
         /\ UNCHANGED ev
    ELSE /\ ev' = [ev EXCEPT ![p] = <<>>]
         /\ IF err # Nil
            THEN /\ pc' = [pc EXCEPT ![p] = "failed"]
                 /\ ret' = [ret EXCEPT ![p] = Wrap("failed to delete older version", err)]
            ELSE /\ pc' = [pc EXCEPT ![p] = "run"]
                 /\ UNCHANGED ret

Ev(op, arg) == [op |-> op, arg |-> arg]

Log(p, event) == trace' = [trace EXCEPT ![p] = Append(@, event)]

\* fs.DeleteOtherVersions, the listing.
EvictReadDir(p) ==
    /\ pc[p] = "DeleteOtherVersions"
    /\ \E fault \in BOOLEAN :
         LET d == ReadDir(fs, ev[p].downloadDir, fault) IN
         IF d.err # Nil
         THEN EvictReturn(p, d.err)
         ELSE /\ ev' = [ev EXCEPT ![p].entries = d.entries, ![p].i = 1]
              /\ pc' = [pc EXCEPT ![p] = "evictLoop"]
              /\ UNCHANGED ret
    /\ Log(p, Ev("readdir", ev[p].downloadDir))
    /\ UNCHANGED <<fs, fs0, top, server, lat, main, dl, wr>>

\* fs.DeleteOtherVersions, one entry of the loop that removes.
EvictRemove(p) ==
    /\ pc[p] = "evictLoop"
    /\ ev[p].i <= Len(ev[p].entries)
    /\ IsOtherVersion(ev[p].entries[ev[p].i], ev[p].version)
    /\ \E fault \in BOOLEAN :
         LET target == Join(ev[p].downloadDir, ev[p].entries[ev[p].i].name)
             r == Remove(fs, target, fault)
         IN  /\ fs' = r.fs
             /\ Log(p, Ev("remove", target))
             /\ IF r.err # Nil
                THEN EvictReturn(p, r.err)
                ELSE /\ ev' = [ev EXCEPT ![p].i = @ + 1]
                     /\ UNCHANGED <<pc, ret>>
    /\ UNCHANGED <<fs0, top, server, lat, main, dl, wr>>

\* fs.DeleteOtherVersions, one entry of the loop that is kept.
EvictSkip(p) ==
    /\ pc[p] = "evictLoop"
    /\ ev[p].i <= Len(ev[p].entries)
    /\ ~IsOtherVersion(ev[p].entries[ev[p].i], ev[p].version)
    /\ ev' = [ev EXCEPT ![p].i = @ + 1]
    /\ UNCHANGED <<fs, fs0, pc, top, server, lat, main, dl, wr, ret, trace>>

\* fs.DeleteOtherVersions, the end of the loop.
EvictDone(p) ==
    /\ pc[p] = "evictLoop"
    /\ ev[p].i > Len(ev[p].entries)
    /\ EvictReturn(p, Nil)
    /\ UNCHANGED <<fs, fs0, top, server, lat, main, dl, wr, trace>>

EvictFrame(downloadDir, version) ==
    [downloadDir |-> downloadDir, version |-> version, entries |-> <<>>, i |-> 0]

(***************************************************************************)
(* fs.DeleteOtherVersions called on its own on a cache directory that      *)
(* holds any subset of a few entries.                                      *)
(***************************************************************************)
UserCacheDir == <<"/", "u">>

GoTw == <<"g", "o", "-", "t", "w">>

CacheDir == Join(UserCacheDir, GoTw)

V3 == <<"v", "3">>

V4 == <<"v", "4">>

XV4 == <<"x", "-", "v", "4">>

V4Exe == V4 \o Exe

Other == <<"o", "t", "h", "e", "r">>

EmptyCacheFS == (Loc(<<"/">>) :> Dir) @@ (Loc(UserCacheDir) :> Dir) @@ (Loc(CacheDir) :> Dir)

\* The file systems that hold, in the cache directory, some of the given
\* names, each as a file or as a directory.
CacheFS(names) ==
    {EmptyCacheFS @@ [q \in {Append(Loc(CacheDir), n) : n \in DOMAIN kinds} |->
                        IF kinds[Last(q)] = "dir" THEN Dir ELSE File(<<"o">>, TRUE)] :
       kinds \in UNION {[S -> {"file", "dir"}] : S \in SUBSET names}}

EvictNames == {PrefixTailwind \o V3, PrefixTailwind \o V4, PrefixTailwind \o V4Exe,
               PrefixTailwind \o XV4, Other}

EvictVersions == {V3, V4, XV4, V4Exe}

EvictInit ==
    /\ fs \in CacheFS(EvictNames)
    /\ fs0 = [p \in Procs |-> fs]
    /\ main = NoFrame /\ dl = NoFrame /\ wr = NoFrame
    /\ lat = NoFrame
    /\ server = NoServer
    /\ pc = [Off EXCEPT ![1] = "DeleteOtherVersions"]
    /\ top = [Off EXCEPT ![1] = "DeleteOtherVersions"]
    /\ \E version \in EvictVersions : ev = [NoFrame EXCEPT ![1] = EvictFrame(CacheDir, version)]
    /\ ret = NoRet
    /\ trace = NoTrace

EvictNext == \E p \in Procs : EvictReadDir(p) \/ EvictRemove(p) \/ EvictSkip(p) \/ EvictDone(p)

SpecEvict == EvictInit /\ [][EvictNext]_vars

(***************************************************************************)
(* fs.GetCurrentVersion called on its own on the same directories.         *)
(***************************************************************************)
CurrentCall(p) ==
    /\ pc[p] = "GetCurrentVersion" /\ top[p] = "GetCurrentVersion"
    /\ \E fault \in BOOLEAN :
         LET r == GetCurrentVersion(fs, lat[p].path, fault) IN
         /\ lat' = [lat EXCEPT ![p].version = r.version]
         /\ ret' = [ret EXCEPT ![p] = r.err]
    /\ pc' = [pc EXCEPT ![p] = "returned"]
    /\ UNCHANGED <<fs, fs0, top, server, main, dl, ev, wr, trace>>

CurrentInit ==
    /\ fs \in CacheFS(EvictNames)
    /\ fs0 = [p \in Procs |-> fs]
    /\ main = NoFrame /\ dl = NoFrame /\ ev = NoFrame /\ wr = NoFrame
    /\ lat = [NoFrame EXCEPT ![1] = [path |-> CacheDir, version |-> <<>>]]
    /\ server = NoServer
    /\ pc = [Off EXCEPT ![1] = "GetCurrentVersion"]
    /\ top = [Off EXCEPT ![1] = "GetCurrentVersion"]
    /\ ret = NoRet
    /\ trace = NoTrace

CurrentNext == \E p \in Procs : CurrentCall(p)

SpecCurrent == CurrentInit /\ [][CurrentNext]_vars

(***************************************************************************)
(* Package client: the artifact name.  A FileReader is what the probe can  *)
(* see: the contents of /proc/self/maps when it is readable, and the musl  *)
(* linker paths that exist.                                                *)
(***************************************************************************)
Linux == <<"l", "i", "n", "u", "x">>

Darwin == <<"d", "a", "r", "w", "i", "n">>

Windows == <<"w", "i", "n", "d", "o", "w", "s">>

Amd64 == <<"a", "m", "d", "6", "4">>

Arm64 == <<"a", "r", "m", "6", "4">>

Musl == <<"m", "u", "s", "l">>

muslLinkers == <<"/lib/ld-musl-x86_64.so.1", "/lib/ld-musl-aarch64.so.1", "/lib/ld-musl-armhf.so.1">>

FileReader(readable, maps, linkers) == [readable |-> readable, maps |-> maps, linkers |-> linkers]

Contains(s, sub) == \E i \in 1..(Len(s) - Len(sub) + 1) : SubSeq(s, i, i + Len(sub) - 1) = sub

isMusl_AnyFile(reader) ==
    \/ reader.readable /\ Contains(reader.maps, Musl)
    \/ reader.linkers # {}

isMusl(reader) ==
    \/ reader.readable /\ Contains(reader.maps, Musl)
    \/ \E i \in 1..Len(muslLinkers) : muslLinkers[i] \in reader.linkers

\* The calls isMusl makes on the reader, in order: the read of
\* /proc/self/maps, then, unless the contents held "musl", FileExists on the
\* linker paths up to the first that exists (slices.ContainsFunc).
RECURSIVE LinkerCalls(_, _)
LinkerCalls(reader, i) ==
    IF i > Len(muslLinkers) THEN <<>>
    ELSE <<Ev("FileExists", muslLinkers[i])>>
         \o (IF muslLinkers[i] \in reader.linkers THEN <<>> ELSE LinkerCalls(reader, i + 1))

isMuslCalls(reader) ==
    <<Ev("ReadFile", "/proc/self/maps")>>
    \o (IF reader.readable /\ Contains(reader.maps, Musl) THEN <<>> ELSE LinkerCalls(reader, 1))

GetNameWithReader_MuslAnywhere(os, arch, reader) ==
    LET muslPostfix == IF isMusl(reader) THEN <<"-">> \o Musl ELSE <<>>
        osName == IF os = Darwin THEN <<"m", "a", "c", "o", "s">> ELSE os
        archName == IF arch = Amd64 THEN <<"x", "6", "4">> ELSE arch
        executablePostfix == IF os = Windows THEN Exe ELSE <<>>
    IN  PrefixTailwind \o osName \o <<"-">> \o archName \o muslPostfix \o executablePostfix

GetNameWithReader_NoMusl(os, arch, reader) ==
    LET osName == IF os = Darwin THEN <<"m", "a", "c", "o", "s">> ELSE os
        archName == IF arch = Amd64 THEN <<"x", "6", "4">> ELSE arch
        executablePostfix == IF os = Windows THEN Exe ELSE <<>>
    IN  PrefixTailwind \o osName \o <<"-">> \o archName \o executablePostfix

\* The calls GetNameWithReader makes on the reader: those of isMusl, which is
\* called on linux only (os == "linux" && isMusl(reader)).
GetNameCalls(os, reader) == IF os = Linux THEN isMuslCalls(reader) ELSE <<>>

GetNameWithReader(os, arch, reader) ==
    LET muslPostfix == IF os = Linux /\ isMusl(reader) THEN <<"-">> \o Musl ELSE <<>>
        osName == IF os = Darwin THEN <<"m", "a", "c", "o", "s">> ELSE os
        archName == IF arch = Amd64 THEN <<"x", "6", "4">> ELSE arch
        executablePostfix == IF os = Windows THEN Exe ELSE <<>>
    IN  PrefixTailwind \o osName \o <<"-">> \o archName \o muslPostfix \o executablePostfix

(***************************************************************************)
(* Client.Download: up to maxRetries attempts, a sleep before every        *)
(* attempt but the first, a removal of the destination after every failed  *)
(* attempt.  The trace records every request, every logged failure, every  *)
(* removal and every sleep.                                                *)
(***************************************************************************)
maxRetries == 3

\* The parameters and locals of Download: err and removeErr are those of the
\* latest pass of the loop, resp is the response of the attempt that succeeded.
DownloadFrame(os, arch, version, path, downloadDir, reader, ctxDone) ==
    [operatingSystem |-> os, arch |-> arch, version |-> version, path |-> path,
     downloadDir |-> downloadDir, reader |-> reader, ctxDone |-> ctxDone,
     url |-> <<>>, attempt |-> 0, lastErr |-> Nil, resp |-> [kind |-> "none"],
     err |-> Nil, removeErr |-> Nil]

DownloadReturn_IgnoresError(p, frame, err) ==
    IF top[p] = "Download"
    THEN /\ pc' = [pc EXCEPT ![p] = "returned"]
         /\ ret' = [ret EXCEPT ![p] = err]
         /\ dl' = [dl EXCEPT ![p] = frame]
    ELSE /\ dl' = [dl EXCEPT ![p] = <<>>]
         /\ pc' = [pc EXCEPT ![p] = "MakeExecutable"]
         /\ UNCHANGED ret

\* What the caller of Download does with its result: execute wraps an error
\* and fails, and goes on to MakeExecutable otherwise.  The frame of Download
\* is gone once it has returned to execute.
DownloadReturn(p, frame, err) ==
    IF top[p] = "Download"
    THEN /\ pc' = [pc EXCEPT ![p] = "returned"]
         /\ ret' = [ret EXCEPT ![p] = err]
         /\ dl' = [dl EXCEPT ![p] = frame]
    ELSE /\ dl' = [dl EXCEPT ![p] = <<>>]
         /\ IF err # Nil
            THEN /\ pc' = [pc EXCEPT ![p] = "failed"]
                 /\ ret' = [ret EXCEPT ![p] = Wrap("failed to download tailwind", err)]
            ELSE /\ pc' = [pc EXCEPT ![p] = "MakeExecutable"]
                 /\ UNCHANGED ret

SleepsBefore_Always(attempt) == TRUE

\* Line 55: the attempts that start with the delay.
SleepsBefore(attempt) == attempt > 1

\* Download, lines 49-54: the URL and the first pass of the loop.
DownloadEnter(p) ==
    /\ pc[p] = "Download"
    /\ dl' = [dl EXCEPT ![p].url = [version |-> dl[p].version,
                                    fileName |-> GetNameWithReader(dl[p].operatingSystem,
                                                                   dl[p].arch, dl[p].reader)],
                        ![p].attempt = 1]
    /\ pc' = [pc EXCEPT ![p] = IF SleepsBefore(1) THEN "downloadSleep" ELSE "downloadAttempt"]
    /\ UNCHANGED <<fs, fs0, top, server, lat, main, ev, wr, ret, trace>>

\* The outcomes of one request: a transport error (the only outcome once the
\* context is done), a status other than 200, or a 200 response with one of
\* the bodies the server holds, a declared length (-1 when none) and,
\* possibly, a read that breaks off.
TransportErrors(ctxDone, errors) == IF ctxDone THEN {"context.Canceled"} ELSE errors

Responses_IgnoresContext(ctxDone, srv) ==
    [kind : {"error"}, err : srv.errors]
    \cup [kind : {"response"}, status : srv.statuses]
    \cup UNION {[kind : {"response"}, status : {200}, body : {b},
                 contentLength : {-1, Len(b), Len(b) + 1}, failAt : {-1}]
                \cup [kind : {"response"}, status : {200}, body : {b},
                      contentLength : {Len(b)}, failAt : 0..(Len(b) - 1)] :
                b \in srv.bodies}

Responses(ctxDone, srv) ==
    [kind : {"error"}, err : TransportErrors(ctxDone, srv.errors)]
    \cup (IF ctxDone THEN {}
          ELSE [kind : {"response"}, status : srv.statuses]
               \cup UNION {[kind : {"response"}, status : {200}, body : {b},
                            contentLength : {-1, Len(b), Len(b) + 1}, failAt : {-1}]
                           \cup [kind : {"response"}, status : {200}, body : {b},
                                 contentLength : {Len(b)}, failAt : 0..(Len(b) - 1)] :
                           b \in srv.bodies})

\* Client.downloadAttempt on a response.
downloadAttempt(f, path, downloadDir, resp, createFault) ==
    IF resp.kind = "error" THEN [fs |-> f, err |-> <<resp.err>>]
    ELSE IF resp.status # 200 THEN [fs |-> f, err |-> <<"ErrHTTP">>]
    ELSE Write(f, Reader(resp.body, resp.failAt), path, downloadDir,
               resp.contentLength, createFault)

NextLastErr_KeepsFirst(lastErr, err) == IF lastErr = Nil THEN err ELSE lastErr

\* Line 65.
NextLastErr(lastErr, err) == err

\* One pass of the loop, lines 60-66.
DownloadAttempt(p) ==
    /\ pc[p] = "downloadAttempt"
    /\ \E resp \in Responses(dl[p].ctxDone, server) :
      \E createFault \in IF resp.kind = "response" /\ resp.status = 200 /\ resp.failAt = -1
                            /\ resp.contentLength = -1
                         THEN BOOLEAN ELSE {FALSE} :
         LET r == downloadAttempt(fs, dl[p].path, dl[p].downloadDir, resp, createFault) IN
         /\ fs' = r.fs
         /\ IF r.err = Nil
            THEN DownloadReturn(p, [dl[p] EXCEPT !.err = Nil, !.resp = resp], Nil)
            ELSE /\ dl' = [dl EXCEPT ![p].err = r.err,
                                     ![p].lastErr = NextLastErr(dl[p].lastErr, r.err)]
                 /\ pc' = [pc EXCEPT ![p] = "downloadCleanup"]
                 /\ UNCHANGED ret
    /\ Log(p, Ev("GET", dl[p].url))
    /\ UNCHANGED <<fs0, top, server, lat, main, ev, wr>>

MoreAttempts_OneTooMany(attempt) == attempt <= maxRetries

\* The loop condition after attempt++.
MoreAttempts(attempt) == attempt + 1 <= maxRetries

CleanupResult_RemovesDirectory(f, path, fault) ==
    LET t == Loc(path)
        gone == {q \in DOMAIN f : /\ Len(q) = Len(t)
                                  /\ SubSeq(q, 1, Len(q) - 1) = SubSeq(t, 1, Len(t) - 1)
                                  /\ f[q].kind = "file"}
    IN  [fs |-> [q \in DOMAIN f \ gone |-> f[q]], err |-> Nil]

CleanupResult_KeepsFile(f, path, fault) == [fs |-> f, err |-> Nil]

\* The removal of line 69.
CleanupResult(f, path, fault) == Remove(f, path, fault)

\* Lines 68-74: the removal of the partial file, then the next pass or the
\* return of the wrapped last error.
DownloadCleanup(p) ==
    /\ pc[p] = "downloadCleanup"
    /\ \E fault \in BOOLEAN :
         LET r == CleanupResult(fs, dl[p].path, fault) IN
         /\ fs' = r.fs
         /\ IF MoreAttempts(dl[p].attempt)
            THEN /\ dl' = [dl EXCEPT ![p].attempt = @ + 1, ![p].removeErr = r.err]
                 /\ pc' = [pc EXCEPT ![p] = IF SleepsBefore(dl[p].attempt + 1)
                                            THEN "downloadSleep" ELSE "downloadAttempt"]
                 /\ UNCHANGED ret
            ELSE DownloadReturn(p, [dl[p] EXCEPT !.removeErr = r.err],
                                <<"ErrDownloadFailed">> \o dl[p].lastErr)
    /\ Log(p, Ev("remove", dl[p].path))
    /\ UNCHANGED <<fs0, top, server, lat, main, ev, wr>>

\* Lines 55-58: the delay before every attempt after the first.
DownloadSleep(p) ==
    /\ pc[p] = "downloadSleep"
    /\ Log(p, Ev("sleep", dl[p].attempt))
    /\ pc' = [pc EXCEPT ![p] = "downloadAttempt"]
    /\ UNCHANGED <<fs, fs0, top, server, lat, main, dl, ev, wr, ret>>

\* The context given to Download is cancelled by its owner.
DownloadCancel(p) ==
    /\ top[p] = "Download"
    /\ pc[p] \in {"Download", "downloadAttempt", "downloadCleanup", "downloadSleep"}
    /\ ~dl[p].ctxDone
    /\ dl' = [dl EXCEPT ![p].ctxDone = TRUE]
    /\ UNCHANGED <<fs, fs0, pc, top, server, lat, main, ev, wr, ret, trace>>

(***************************************************************************)
(* Client.Download called on its own: into the cache directory (empty, or  *)
(* holding an older file at the destination) and to paths outside it.      *)
(***************************************************************************)
NoMusl == FileReader(FALSE, <<>>, {})

Outside == Join(UserCacheDir, <<"x">>)

DownloadFS ==
    {EmptyCacheFS @@ g : g \in
       {<<>>,
        Loc(Join(CacheDir, PrefixTailwind \o V4)) :> File(<<"o">>, TRUE),
        Loc(Outside) :> File(<<"o">>, TRUE),
        Loc(Join(CacheDir, PrefixTailwind \o V4)) :> Dir,
        (Loc(Join(CacheDir, PrefixTailwind \o V4)) :> Dir)
          @@ (Append(Loc(Join(CacheDir, PrefixTailwind \o V4)), Other) :> File(<<"o">>, FALSE))}}

DownloadPaths ==
    {Join(CacheDir, PrefixTailwind \o V4),
     Outside,
     CacheDir \o <<"/", ".", ".", "/", "x">>}

DownloadInit ==
    /\ fs \in DownloadFS
    /\ fs0 = [p \in Procs |-> fs]
    /\ main = NoFrame /\ ev = NoFrame /\ wr = NoFrame
    /\ lat = NoFrame
    /\ server = [bodies |-> Strings({"x", "y"}, MaxBody), statuses |-> {404, 500},
                 errors |-> {"net.Error", "net.Timeout"}]
    /\ pc = [Off EXCEPT ![1] = "Download"]
    /\ top = [Off EXCEPT ![1] = "Download"]
    /\ \E path \in DownloadPaths, ctxDone \in BOOLEAN :
         dl = [NoFrame EXCEPT ![1] =
                 DownloadFrame(Linux, Amd64, V4, path, CacheDir, NoMusl, ctxDone)]
    /\ ret = NoRet
    /\ trace = NoTrace

DownloadNext ==
    \E p \in Procs :
       \/ DownloadEnter(p)
       \/ DownloadAttempt(p)
       \/ DownloadCleanup(p)
       \/ DownloadSleep(p)
       \/ DownloadCancel(p)

SpecDownload == DownloadInit /\ [][DownloadNext]_vars

(***************************************************************************)
(* Package main: execute, the launcher.                                    *)
(***************************************************************************)
Latest == <<"l", "a", "t", "e", "s", "t">>

FlagVersion == <<"-", "v", "e", "r", "s", "i", "o", "n">>

IsSupported_AnyOS(os, arch) == arch = Amd64 \/ arch = Arm64

IsSupported_AnyArch(os, arch) ==
    CASE os = Windows \/ os = Darwin \/ os = Linux -> TRUE
      [] OTHER -> FALSE

\* switch os { case "windows", "darwin", "linux": ...; default: false }
IsSupported(os, arch) ==
    CASE os = Windows \/ os = Darwin \/ os = Linux -> arch = Amd64 \/ arch = Arm64
      [] OTHER -> FALSE

RECURSIVE GetArgsFrom_KeepsValue(_, _, _, _)
GetArgsFrom_KeepsValue(args, i, version, filteredArgs) ==
    IF i > Len(args) THEN [version |-> version, args |-> filteredArgs, err |-> Nil]
    ELSE IF args[i] = FlagVersion
         THEN IF i + 1 > Len(args)
              THEN [version |-> <<>>, args |-> <<>>, err |-> <<"ErrMissingVersionArg">>]
              ELSE GetArgsFrom_KeepsValue(args, i + 1, args[i + 1], filteredArgs)
    ELSE GetArgsFrom_KeepsValue(args, i + 1, version, Append(filteredArgs, args[i]))

RECURSIVE GetArgsFrom_PartialOnError(_, _, _, _)
GetArgsFrom_PartialOnError(args, i, version, filteredArgs) ==
    IF i > Len(args) THEN [version |-> version, args |-> filteredArgs, err |-> Nil]
    ELSE IF args[i] = FlagVersion
         THEN IF i + 1 > Len(args)
              THEN [version |-> version, args |-> filteredArgs, err |-> <<"ErrMissingVersionArg">>]
              ELSE GetArgsFrom_PartialOnError(args, i + 2, args[i + 1], filteredArgs)
    ELSE GetArgsFrom_PartialOnError(args, i + 1, version, Append(filteredArgs, args[i]))

\* The loop of GetArgs from index i on (indices from 1).
RECURSIVE GetArgsFrom(_, _, _, _)
GetArgsFrom(args, i, version, filteredArgs) ==
    IF i > Len(args) THEN [version |-> version, args |-> filteredArgs, err |-> Nil]
    ELSE IF args[i] = FlagVersion
         THEN IF i + 1 > Len(args)
              THEN [version |-> <<>>, args |-> <<>>, err |-> <<"ErrMissingVersionArg">>]
              ELSE GetArgsFrom(args, i + 2, args[i + 1], filteredArgs)
    ELSE GetArgsFrom(args, i + 1, version, Append(filteredArgs, args[i]))

GetArgs(args) == GetArgsFrom(args, 1, Latest, <<>>)

\* os.MkdirAll: creates the directory and its missing parents.
RECURSIVE MkdirAllLoc(_, _, _)
MkdirAllLoc(f, t, k) ==
    IF k > Len(t) THEN [fs |-> f, err |-> Nil]
    ELSE LET q == SubSeq(t, 1, k) IN
         IF q \in DOMAIN f
         THEN IF f[q].kind = "dir" THEN MkdirAllLoc(f, t, k + 1)
              ELSE [fs |-> f, err |-> <<"os.MkdirAll">>]
         ELSE MkdirAllLoc(Put(f, q, Dir), t, k + 1)

\* fs.GetDownloadDir.  fault is a failure of os.UserCacheDir or of os.MkdirAll.
GetDownloadDir(f, fault) ==
    IF fault THEN [fs |-> f, dir |-> <<>>, err |-> <<"os.UserCacheDir">>]
    ELSE LET p == Join(UserCacheDir, GoTw)
             r == MkdirAllLoc(f, Loc(p), 1)
         IN  IF r.err # Nil THEN [fs |-> f, dir |-> <<>>, err |-> r.err]
             ELSE [fs |-> r.fs, dir |-> p, err |-> Nil]

Exists_NeverFinds(f, path, fault) == <<"ErrFileNotExists">>

\* fs.Exists: nil when os.Stat finds an entry, ErrFileNotExists when it finds
\* none, and the error of os.Stat otherwise (here: a parent that is a file).
Exists(f, path, fault) ==
    LET t == Loc(path) IN
    IF fault THEN <<"os.Stat">>
    ELSE IF t \in DOMAIN f THEN Nil
    ELSE IF \E k \in 0..(Len(t) - 1) : SubSeq(t, 1, k) \in DOMAIN f /\ f[SubSeq(t, 1, k)].kind = "file"
         THEN <<"os.Stat">>
    ELSE <<"ErrFileNotExists">>

\* fs.MakeExecutable: os.Chmod(path, 0700).
MakeExecutable(f, path, fault) ==
    LET t == Loc(path) IN
    IF fault \/ t \notin DOMAIN f THEN [fs |-> f, err |-> <<"os.Chmod">>]
    ELSE [fs |-> [f EXCEPT ![t].exec = TRUE], err |-> Nil]

\* A response to the request for the latest release: a transport error, or a
\* status and a body.  A body is a JSON object with some fields, text that is
\* not JSON, or empty.
JsonBody(fields) == [form |-> "object", fields |-> fields]

Garbage == [form |-> "invalid", fields |-> <<>>]

EmptyBody == [form |-> "empty", fields |-> <<>>]

DecodeRelease_WrongField(body) ==
    IF body.form = "empty" THEN [TagName |-> <<>>, err |-> <<"io.EOF">>]
    ELSE IF body.form = "invalid" THEN [TagName |-> <<>>, err |-> <<"json.SyntaxError">>]
    ELSE [TagName |-> IF "name" \in DOMAIN body.fields THEN body.fields["name"] ELSE <<>>,
          err |-> Nil]

\* json.Decode into the release struct: TagName is the tag_name field, or
\* empty when the object has none.
DecodeRelease(body) ==
    IF body.form = "empty" THEN [TagName |-> <<>>, err |-> <<"io.EOF">>]
    ELSE IF body.form = "invalid" THEN [TagName |-> <<>>, err |-> <<"json.SyntaxError">>]
    ELSE [TagName |-> IF "tag_name" \in DOMAIN body.fields THEN body.fields["tag_name"] ELSE <<>>,
          err |-> Nil]

\* Client.GetLatestVersion on a response.
GetLatestVersion(resp) ==
    IF resp.kind = "error" THEN [version |-> <<>>, err |-> <<"ErrHTTP">>]
    ELSE LET d == DecodeRelease(resp.body) IN
         IF d.err # Nil THEN [version |-> <<>>, err |-> d.err]
         ELSE [version |-> d.TagName, err |-> Nil]

LatestBodies == {JsonBody("tag_name" :> V4), JsonBody("message" :> Other), Garbage, EmptyBody}

LatestResponses ==
    [kind : {"error"}, err : {"net.Error"}]
    \cup [kind : {"response"}, status : {200, 500}, body : LatestBodies]

\* The machine before the launcher has ever run.
RootFS == (Loc(<<"/">>) :> Dir) @@ (Loc(UserCacheDir) :> Dir)

\* Client.GetLatestVersion called on its own, by every process: the frame
\* keeps the response it was given.
Statuses == {200, 204, 301, 404, 500, 503}

TransportFailures == {"net.Error", "net.Timeout", "context.Canceled"}

AllLatestResponses ==
    [kind : {"error"}, err : TransportFailures]
    \cup [kind : {"response"}, status : Statuses, body : LatestBodies \cup {JsonBody("tag_name" :> <<>>)}]

LatestCall(p) ==
    /\ pc[p] = "GetLatestVersion" /\ top[p] = "GetLatestVersion"
    /\ \E resp \in AllLatestResponses :
         LET r == GetLatestVersion(resp) IN
         /\ lat' = [lat EXCEPT ![p] = [resp |-> resp, version |-> r.version]]
         /\ ret' = [ret EXCEPT ![p] = r.err]
    /\ Log(p, Ev("GET", Latest))
    /\ pc' = [pc EXCEPT ![p] = "returned"]
    /\ UNCHANGED <<fs, fs0, top, server, main, dl, ev, wr>>

LatestInit ==
    /\ fs = RootFS
    /\ fs0 = [p \in Procs |-> fs]
    /\ main = NoFrame /\ dl = NoFrame /\ ev = NoFrame /\ wr = NoFrame /\ lat = NoFrame
    /\ server = NoServer
    /\ pc = [p \in Procs |-> "GetLatestVersion"]
    /\ top = [p \in Procs |-> "GetLatestVersion"]
    /\ ret = NoRet
    /\ trace = NoTrace

LatestNext == \E p \in Procs : LatestCall(p)

SpecLatest == LatestInit /\ [][LatestNext]_vars

\* The locals of execute.  runs counts the runs on the machine, and aborted
\* remembers the run before: it holds the version that run had resolved to
\* when its eviction was ended by a removal that failed, and nothing
\* otherwise.
MainFrame(goos, goarch, reader, argv, runs) ==
    [goos |-> goos, goarch |-> goarch, reader |-> reader, argv |-> argv, runs |-> runs,
     aborted |-> <<>>,
     version |-> <<>>, args |-> <<>>, downloadDir |-> <<>>, verErr |-> Nil,
     actualVersion |-> <<>>, filePath |-> <<>>]

\* main, lines 22-27: the exit status of the process once execute has
\* returned.
ExitStatus(p) == IF ret[p] # Nil THEN 1 ELSE 0

Fail_RunsAnyway(p, context, err) ==
    /\ pc' = [pc EXCEPT ![p] = "run"]
    /\ ret' = [ret EXCEPT ![p] = Wrap(context, err)]

\* execute returns err: main prints it and exits with status 1.
Fail(p, context, err) ==
    /\ pc' = [pc EXCEPT ![p] = "failed"]
    /\ ret' = [ret EXCEPT ![p] = Wrap(context, err)]

\* Lines 37-43: the platform check.
PlatformCheck(p) ==
    /\ pc[p] = "execute"
    /\ IF ~IsSupported(main[p].goos, main[p].goarch)
       THEN /\ pc' = [pc EXCEPT ![p] = "failed"]
            /\ ret' = [ret EXCEPT ![p] = <<"ErrUnsupportedPlatform">>]
       ELSE /\ pc' = [pc EXCEPT ![p] = "GetArgs"]
            /\ UNCHANGED ret
    /\ UNCHANGED <<fs, fs0, top, server, lat, main, dl, ev, wr, trace>>

\* Lines 47-50.
ParseArgs(p) ==
    /\ pc[p] = "GetArgs" /\ top[p] = "execute"
    /\ LET r == GetArgs(main[p].argv) IN
       /\ main' = [main EXCEPT ![p].version = r.version, ![p].args = r.args]
       /\ IF r.err # Nil
          THEN Fail(p, "failed to parse arguments", r.err)
          ELSE /\ pc' = [pc EXCEPT ![p] = "GetDownloadDir"]
               /\ UNCHANGED ret
    /\ UNCHANGED <<fs, fs0, top, server, lat, dl, ev, wr, trace>>

\* Lines 52-60: the cache directory, then the branch on "latest".
DownloadDir(p) ==
    /\ pc[p] = "GetDownloadDir"
    /\ \E fault \in BOOLEAN :
         LET r == GetDownloadDir(fs, fault) IN
         /\ fs' = r.fs
         /\ IF r.err # Nil
            THEN /\ Fail(p, "failed to determine directory to download tailwind to", r.err)
                 /\ UNCHANGED main
            ELSE /\ main' = [main EXCEPT ![p].downloadDir = r.dir,
                                         ![p].actualVersion = main[p].version]
                 /\ pc' = [pc EXCEPT ![p] = IF main[p].version = Latest
                                            THEN "GetLatestVersion" ELSE "Exists"]
                 /\ UNCHANGED ret
    /\ Log(p, Ev("mkdir", Join(UserCacheDir, GoTw)))
    /\ UNCHANGED <<fs0, top, server, lat, dl, ev, wr>>

FallsBack_Never(verErr) == FALSE

FallsBack_Always(verErr) == TRUE

\* Line 63: the errors of GetLatestVersion after which the installed version
\* is used.
FallsBack(verErr) == ErrIs(verErr, "ErrHTTP")

\* Lines 61-76: the latest version, the fallback on ErrHTTP.
LatestVersion(p) ==
    /\ pc[p] = "GetLatestVersion" /\ top[p] = "execute"
    /\ \E resp \in LatestResponses :
         LET r == GetLatestVersion(resp) IN
         IF r.err = Nil
         THEN /\ main' = [main EXCEPT ![p].actualVersion = r.version]
              /\ pc' = [pc EXCEPT ![p] = "Exists"]
              /\ UNCHANGED ret
         ELSE IF FallsBack(r.err)
         THEN /\ main' = [main EXCEPT ![p].verErr = r.err]
              /\ pc' = [pc EXCEPT ![p] = "GetCurrentVersion"]
              /\ UNCHANGED ret
         ELSE /\ Fail(p, "failed to determine latest version", r.err)
              /\ main' = [main EXCEPT ![p].verErr = r.err]
    /\ Log(p, Ev("GET", Latest))
    /\ UNCHANGED <<fs, fs0, top, server, lat, dl, ev, wr>>

\* Lines 64-69: the installed version as the fallback.
CurrentVersion(p) ==
    /\ pc[p] = "GetCurrentVersion"
    /\ \E fault \in BOOLEAN :
         LET r == GetCurrentVersion(fs, main[p].downloadDir, fault) IN
         IF r.err # Nil
         THEN /\ Fail(p, "failed to check for latest version of tailwind and no version is installed", r.err)
              /\ UNCHANGED main
         ELSE /\ main' = [main EXCEPT ![p].actualVersion = r.version]
              /\ pc' = [pc EXCEPT ![p] = "Exists"]
              /\ UNCHANGED ret
    /\ Log(p, Ev("readdir", main[p].downloadDir))
    /\ UNCHANGED <<fs, fs0, top, server, lat, dl, ev, wr>>

FilePath_AlwaysExe(m) == Join(m.downloadDir, PrefixTailwind \o m.actualVersion \o Exe)

\* Lines 79-83: the path of the cache entry.
FilePath(m) ==
    Join(m.downloadDir,
         PrefixTailwind \o m.actualVersion \o (IF m.goos = Windows THEN Exe ELSE <<>>))

\* Lines 79-97: the cache check; on a miss, the call of Download.
CacheCheck(p) ==
    /\ pc[p] = "Exists"
    /\ LET filePath == FilePath(main[p]) IN
       /\ main' = [main EXCEPT ![p].filePath = filePath]
       /\ Log(p, Ev("stat", filePath))
       /\ \E fault \in BOOLEAN :
            LET err == Exists(fs, filePath, fault) IN
            IF err = Nil
            THEN /\ pc' = [pc EXCEPT ![p] = "run"]
                 /\ UNCHANGED <<dl, ret>>
            ELSE IF ErrIs(err, "ErrFileNotExists")
            THEN /\ pc' = [pc EXCEPT ![p] = "Download"]
                 /\ dl' = [dl EXCEPT ![p] =
                             DownloadFrame(main[p].goos, main[p].goarch, main[p].actualVersion,
                                           filePath, main[p].downloadDir, main[p].reader, FALSE)]
                 /\ UNCHANGED ret
            ELSE /\ Fail(p, "failed to check if tailwind is already installed", err)
                 /\ UNCHANGED dl
    /\ UNCHANGED <<fs, fs0, top, server, lat, ev, wr>>

\* Lines 100-103: the new entry is made executable, then the eviction starts.
Chmod(p) ==
    /\ pc[p] = "MakeExecutable"
    /\ \E fault \in BOOLEAN :
         LET r == MakeExecutable(fs, main[p].filePath, fault) IN
         /\ fs' = r.fs
         /\ IF r.err # Nil
            THEN Fail(p, "failed to make tailwind executable", r.err) /\ UNCHANGED ev
            ELSE /\ pc' = [pc EXCEPT ![p] = "DeleteOtherVersions"]
                 /\ ev' = [ev EXCEPT ![p] = EvictFrame(main[p].downloadDir, main[p].actualVersion)]
                 /\ UNCHANGED ret
    /\ Log(p, Ev("chmod", main[p].filePath))
    /\ UNCHANGED <<fs0, top, server, lat, main, dl, wr>>

\* run, lines 143-151: the tool is started with the arguments left after
\* GetArgs; a file that cannot be started fails the run at once.
Run(p) ==
    /\ pc[p] = "run"
    /\ LET t == Loc(main[p].filePath)
           startable == t \in DOMAIN fs /\ fs[t].kind = "file" /\ fs[t].exec
       IN  IF startable
           THEN /\ pc' = [pc EXCEPT ![p] = "cmd.Wait"]
                /\ UNCHANGED ret
           ELSE Fail(p, "failed to run tailwind", <<"exec.Error">>)
    /\ Log(p, Ev("run", [path |-> main[p].filePath, args |-> main[p].args]))
    /\ UNCHANGED <<fs, fs0, top, server, lat, main, dl, ev, wr>>

\* run, lines 151-168: the tool exits and cmd.Run returns its status.  The
\* context given to exec.CommandContext is context.Background(), so nothing
\* but the exit of the tool ends the wait.
RunExit(p) ==
    /\ pc[p] = "cmd.Wait"
    /\ \E status \in {0, 1} :
          IF status = 0
          THEN /\ pc' = [pc EXCEPT ![p] = "done"]
               /\ UNCHANGED ret
          ELSE Fail(p, "failed to run tailwind", <<"exec.ExitError">>)
    /\ UNCHANGED <<fs, fs0, top, server, lat, main, dl, ev, wr, trace>>

(***************************************************************************)
(* The launcher run up to MaxRuns times in a row on one machine: each run  *)
(* starts with the cache as the run before left it.                        *)
(***************************************************************************)
Plan9 == <<"p", "l", "a", "n", "9">>

OtherArg == <<"-", "i">>

(***************************************************************************)
(* IsSupported called on its own, on the operating systems and the         *)
(* architectures of TestIsSupported and on near misses of the supported    *)
(* names (another case, the empty string, the two arguments exchanged).    *)
(***************************************************************************)
FreeBSD == <<"f", "r", "e", "e", "b", "s", "d">>

UpperLinux == <<"L", "i", "n", "u", "x">>

I386 == <<"3", "8", "6">>

Arm == <<"a", "r", "m">>

X86_64 == <<"x", "8", "6", "_", "6", "4">>

OSNames == {Linux, Darwin, Windows, FreeBSD, Plan9, UpperLinux, Amd64, <<>>}

ArchNames == {Amd64, Arm64, I386, Arm, X86_64, Linux, <<>>}

SupportedCall(p) ==
    /\ pc[p] = "IsSupported"
    /\ lat' = [lat EXCEPT ![p] = [os |-> lat[p].os, arch |-> lat[p].arch,
                                  supported |-> IsSupported(lat[p].os, lat[p].arch)]]
    /\ pc' = [pc EXCEPT ![p] = "returned"]
    /\ UNCHANGED <<fs, fs0, top, server, main, dl, ev, wr, ret, trace>>

SupportedInit ==
    /\ fs = RootFS
    /\ fs0 = [p \in Procs |-> fs]
    /\ main = NoFrame /\ dl = NoFrame /\ ev = NoFrame /\ wr = NoFrame
    /\ lat \in [Procs -> [os : OSNames, arch : ArchNames]]
    /\ server = NoServer
    /\ pc = [p \in Procs |-> "IsSupported"]
    /\ top = [p \in Procs |-> "IsSupported"]
    /\ ret = NoRet
    /\ trace = NoTrace

SupportedNext == \E p \in Procs : SupportedCall(p)

SpecSupported == SupportedInit /\ [][SupportedNext]_vars

(***************************************************************************)
(* isMusl and GetNameWithReader called on their own.  The readers are      *)
(* those of TestIsMusl and TestGetNameWithReader and more of their kind:   *)
(* /proc/self/maps unreadable or holding one of a few texts, and any set   *)
(* of existing paths among the three linkers and one other file.           *)
(***************************************************************************)
MapsContents ==
    {Musl,
     <<"/", "l", "d", "-", "m", "u", "s", "l", "-", "x">>,
     <<"l", "i", "b", "c", ".", "s", "o">>,
     <<"m", "u", "s">>,
     <<"m", "u", "-", "s", "l">>,
     <<"M", "U", "S", "L">>,
     <<>>}

LinkerPaths == {muslLinkers[i] : i \in 1..Len(muslLinkers)} \cup {"/lib/ld-linux-x86-64.so.2"}

MuslReaders ==
    {FileReader(r, m, l) : r \in BOOLEAN, m \in MapsContents, l \in SUBSET LinkerPaths}

MuslCall(p) ==
    /\ pc[p] = "isMusl"
    /\ lat' = [lat EXCEPT ![p] = [reader |-> lat[p].reader, musl |-> isMusl(lat[p].reader)]]
    /\ trace' = [trace EXCEPT ![p] = isMuslCalls(lat[p].reader)]
    /\ pc' = [pc EXCEPT ![p] = "returned"]
    /\ UNCHANGED <<fs, fs0, top, server, main, dl, ev, wr, ret>>

MuslInit ==
    /\ fs = RootFS
    /\ fs0 = [p \in Procs |-> fs]
    /\ main = NoFrame /\ dl = NoFrame /\ ev = NoFrame /\ wr = NoFrame
    /\ \E reader \in MuslReaders : lat = [NoFrame EXCEPT ![1] = [reader |-> reader]]
    /\ server = NoServer
    /\ pc = [Off EXCEPT ![1] = "isMusl"]
    /\ top = [Off EXCEPT ![1] = "isMusl"]
    /\ ret = NoRet
    /\ trace = NoTrace

MuslNext == \E p \in Procs : MuslCall(p)

SpecMusl == MuslInit /\ [][MuslNext]_vars

NameReaders ==
    {FileReader(FALSE, <<>>, {}),
     FileReader(TRUE, <<"/", "l", "d", "-", "m", "u", "s", "l", "-", "x">>, {}),
     FileReader(TRUE, <<"l", "i", "b", "c", ".", "s", "o">>, {muslLinkers[2]}),
     FileReader(TRUE, <<"l", "i", "b", "c", ".", "s", "o">>, {})}

NameOS == {Linux, Darwin, Windows, FreeBSD, Plan9}

NameArch == {Amd64, Arm64, I386, Arm}

NameCall(p) ==
    /\ pc[p] = "GetNameWithReader"
    /\ lat' = [lat EXCEPT ![p] =
                 [os |-> lat[p].os, arch |-> lat[p].arch, reader |-> lat[p].reader,
                  name |-> GetNameWithReader(lat[p].os, lat[p].arch, lat[p].reader)]]
    /\ trace' = [trace EXCEPT ![p] = GetNameCalls(lat[p].os, lat[p].reader)]
    /\ pc' = [pc EXCEPT ![p] = "returned"]
    /\ UNCHANGED <<fs, fs0, top, server, main, dl, ev, wr, ret>>

NameInit ==
    /\ fs = RootFS
    /\ fs0 = [p \in Procs |-> fs]
    /\ main = NoFrame /\ dl = NoFrame /\ ev = NoFrame /\ wr = NoFrame
    /\ lat \in [Procs -> [os : NameOS, arch : NameArch, reader : NameReaders]]
    /\ server = NoServer
    /\ pc = [p \in Procs |-> "GetNameWithReader"]
    /\ top = [p \in Procs |-> "GetNameWithReader"]
    /\ ret = NoRet
    /\ trace = NoTrace

NameNext == \E p \in Procs : NameCall(p)

SpecName == NameInit /\ [][NameNext]_vars

(***************************************************************************)
(* GetArgs called on its own, on every list of up to MaxArgs tokens among  *)
(* the flag, two versions and another argument.                            *)
(***************************************************************************)
ArgTokens == {FlagVersion, V3, V4, OtherArg}

ArgsCall(p) ==
    /\ pc[p] = "GetArgs" /\ top[p] = "GetArgs"
    /\ LET r == GetArgs(lat[p].argv) IN
       /\ lat' = [lat EXCEPT ![p] = [argv |-> lat[p].argv, version |-> r.version, args |-> r.args]]
       /\ ret' = [ret EXCEPT ![p] = r.err]
    /\ pc' = [pc EXCEPT ![p] = "returned"]
    /\ UNCHANGED <<fs, fs0, top, server, main, dl, ev, wr, trace>>

ArgsInit ==
    /\ fs = RootFS
    /\ fs0 = [p \in Procs |-> fs]
    /\ main = NoFrame /\ dl = NoFrame /\ ev = NoFrame /\ wr = NoFrame
    /\ \E argv \in Strings(ArgTokens, MaxArgs) : lat = [NoFrame EXCEPT ![1] = [argv |-> argv]]
    /\ server = NoServer
    /\ pc = [Off EXCEPT ![1] = "GetArgs"]
    /\ top = [Off EXCEPT ![1] = "GetArgs"]
    /\ ret = NoRet
    /\ trace = NoTrace

ArgsNext == \E p \in Procs : ArgsCall(p)

SpecArgs == ArgsInit /\ [][ArgsNext]_vars

Platforms == {<<Linux, Amd64>>, <<Windows, Arm64>>, <<Plan9, Amd64>>, <<Linux, I386>>}

ArgLists == {<<OtherArg>>, <<FlagVersion, V4, OtherArg>>, <<OtherArg, FlagVersion>>}

CacheFile(name) == Append(Loc(CacheDir), name) :> File(<<"o">>, TRUE)

LauncherFS ==
    {RootFS,
     EmptyCacheFS,
     EmptyCacheFS @@ CacheFile(PrefixTailwind \o V3),
     EmptyCacheFS @@ CacheFile(PrefixTailwind \o V4),
     EmptyCacheFS @@ CacheFile(PrefixTailwind \o V3 \o Exe) @@ CacheFile(Other),
     EmptyCacheFS @@ CacheFile(PrefixTailwind \o V3) @@ CacheFile(PrefixTailwind \o XV4)
                  @@ (Append(Loc(CacheDir), PrefixTailwind \o <<"d">>) :> Dir)}

Init ==
    /\ fs \in LauncherFS
    /\ fs0 = [p \in Procs |-> fs]
    /\ dl = NoFrame /\ ev = NoFrame /\ wr = NoFrame
    /\ lat = NoFrame
    /\ server = [bodies |-> {<<"x">>}, statuses |-> {500}, errors |-> {"net.Timeout"}]
    /\ pc = [Off EXCEPT ![1] = "execute"]
    /\ top = [Off EXCEPT ![1] = "execute"]
    /\ \E platform \in Platforms, argv \in ArgLists :
         main = [NoFrame EXCEPT ![1] = MainFrame(platform[1], platform[2], NoMusl, argv, 1)]
    /\ ret = NoRet
    /\ trace = NoTrace

\* The run has ended at lines 103-105 with the error of os.Remove.
EvictionAborted(p) ==
    pc[p] = "failed" /\ ret[p] = <<"failed to delete older version", "os.Remove">>

\* The launcher is started again after it has exited.
Restart(p) ==
    /\ top[p] = "execute"
    /\ pc[p] \in {"done", "failed"}
    /\ main[p].runs < MaxRuns
    /\ \E argv \in ArgLists :
         main' = [main EXCEPT ![p] =
                    [MainFrame(main[p].goos, main[p].goarch, main[p].reader,
                               argv, main[p].runs + 1)
                       EXCEPT !.aborted = IF EvictionAborted(p)
                                          THEN <<main[p].actualVersion>> ELSE <<>>]]
    /\ pc' = [pc EXCEPT ![p] = "execute"]
    /\ fs0' = [fs0 EXCEPT ![p] = fs]
    /\ dl' = [dl EXCEPT ![p] = <<>>]
    /\ ev' = [ev EXCEPT ![p] = <<>>]
    /\ ret' = [ret EXCEPT ![p] = <<>>]
    /\ trace' = [trace EXCEPT ![p] = <<>>]
    /\ UNCHANGED <<fs, top, server, lat, wr>>

Next ==
    \E p \in Procs :
       \/ PlatformCheck(p)
       \/ ParseArgs(p)
       \/ DownloadDir(p)
       \/ LatestVersion(p)
       \/ CurrentVersion(p)
       \/ CacheCheck(p)
       \/ DownloadEnter(p)
       \/ DownloadAttempt(p)
       \/ DownloadCleanup(p)
       \/ DownloadSleep(p)
       \/ Chmod(p)
       \/ EvictReadDir(p)
       \/ EvictRemove(p)
       \/ EvictSkip(p)
       \/ EvictDone(p)
       \/ Run(p)
       \/ RunExit(p)
       \/ Restart(p)

Spec == Init /\ [][Next]_vars

(***************************************************************************)
(* The launcher run first with an explicit version, v4 or v4.exe, on linux *)
(* and on windows from a cache that is missing or empty, and then again    *)
(* with any of the argument lists: a later run without -version falls back *)
(* on whatever the first run has left in the cache.                        *)
(***************************************************************************)
FallbackInit ==
    /\ fs \in {RootFS, EmptyCacheFS}
    /\ fs0 = [p \in Procs |-> fs]
    /\ dl = NoFrame /\ ev = NoFrame /\ wr = NoFrame
    /\ lat = NoFrame
    /\ server = [bodies |-> {<<"x">>}, statuses |-> {500}, errors |-> {"net.Timeout"}]
    /\ pc = [Off EXCEPT ![1] = "execute"]
    /\ top = [Off EXCEPT ![1] = "execute"]
    /\ \E platform \in {<<Linux, Amd64>>, <<Windows, Arm64>>}, version \in {V4, V4Exe} :
         main = [NoFrame EXCEPT ![1] = MainFrame(platform[1], platform[2], NoMusl,
                                                 <<FlagVersion, version>>, 1)]
    /\ ret = NoRet
    /\ trace = NoTrace

SpecFallback == FallbackInit /\ [][Next]_vars

(***************************************************************************)
(* The launcher run once on linux/amd64, on every list of up to            *)
(* MaxLauncherArgs tokens among the flag, a version and another argument,  *)
(* with the cache missing or holding that version.                         *)
(***************************************************************************)
OnceInit ==
    /\ fs \in {RootFS, EmptyCacheFS @@ CacheFile(PrefixTailwind \o V4)}
    /\ fs0 = [p \in Procs |-> fs]
    /\ dl = NoFrame /\ ev = NoFrame /\ wr = NoFrame
    /\ lat = NoFrame
    /\ server = [bodies |-> {<<"x">>}, statuses |-> {500}, errors |-> {"net.Timeout"}]
    /\ pc = [Off EXCEPT ![1] = "execute"]
    /\ top = [Off EXCEPT ![1] = "execute"]
    /\ \E argv \in Strings({FlagVersion, V4, OtherArg}, MaxLauncherArgs) :
         main = [NoFrame EXCEPT ![1] = MainFrame(Linux, Amd64, NoMusl, argv, 1)]
    /\ ret = NoRet
    /\ trace = NoTrace

OnceNext ==
    \E p \in Procs :
       \/ PlatformCheck(p)
       \/ ParseArgs(p)
       \/ DownloadDir(p)
       \/ LatestVersion(p)
       \/ CurrentVersion(p)
       \/ CacheCheck(p)
       \/ DownloadEnter(p)
       \/ DownloadAttempt(p)
       \/ DownloadCleanup(p)
       \/ DownloadSleep(p)
       \/ Chmod(p)
       \/ EvictReadDir(p)
       \/ EvictRemove(p)
       \/ EvictSkip(p)
       \/ EvictDone(p)
       \/ Run(p)
       \/ RunExit(p)

SpecOnce == OnceInit /\ [][OnceNext]_vars

(***************************************************************************)
(* The launcher run once with the versions a user can name: a tag, and     *)
(* tokens with path separators and "..".  The machine has an older version *)
(* in the cache and a file beside the cache directory, or a directory with *)
(* a file in the cache.                                                    *)
(***************************************************************************)
Traversal == <<"/", ".", ".", "/", ".", ".", "/", "x">>

SubPath == <<"/", "x">>

UserVersions == {V4, Traversal, SubPath, <<".", ".">>}

VersionsFS ==
    {EmptyCacheFS @@ CacheFile(PrefixTailwind \o V3) @@ (Loc(Outside) :> File(<<"o">>, TRUE)),
     EmptyCacheFS @@ (Append(Loc(CacheDir), PrefixTailwind) :> Dir)
                  @@ (Loc(Join(CacheDir, PrefixTailwind \o SubPath)) :> File(<<"o">>, TRUE))}

VersionsInit ==
    /\ fs \in VersionsFS
    /\ fs0 = [p \in Procs |-> fs]
    /\ dl = NoFrame /\ ev = NoFrame /\ wr = NoFrame
    /\ lat = NoFrame
    /\ server = [bodies |-> {<<"x">>}, statuses |-> {500}, errors |-> {"net.Timeout"}]
    /\ pc = [Off EXCEPT ![1] = "execute"]
    /\ top = [Off EXCEPT ![1] = "execute"]
    /\ \E argv \in {<<OtherArg>>} \cup {<<FlagVersion, v>> : v \in UserVersions} :
         main = [NoFrame EXCEPT ![1] = MainFrame(Linux, Amd64, NoMusl, argv, 1)]
    /\ ret = NoRet
    /\ trace = NoTrace

SpecVersions == VersionsInit /\ [][OnceNext]_vars

(***************************************************************************)
(* Two launchers started at the same time on one machine, one for v3 and   *)
(* one for v4.  Nothing in execute makes a run wait for another: the steps *)
(* of the two interleave freely on the one file system.                    *)
(***************************************************************************)
TwoInit ==
    /\ fs \in {RootFS, EmptyCacheFS}
    /\ fs0 = [p \in Procs |-> fs]
    /\ dl = NoFrame /\ ev = NoFrame /\ wr = NoFrame
    /\ lat = NoFrame
    /\ server = [bodies |-> {<<"x">>}, statuses |-> {}, errors |-> {}]
    /\ pc = [p \in Procs |-> "execute"]
    /\ top = [p \in Procs |-> "execute"]
    /\ main = [p \in Procs |->
                 MainFrame(Linux, Amd64, NoMusl,
                           <<FlagVersion, IF p = 1 THEN V3 ELSE V4>>, MaxRuns)]
    /\ ret = NoRet
    /\ trace = NoTrace

\* With the version given by the flag neither run asks for the latest
\* release or for the installed version.
TwoNext ==
    \E p \in Procs :
       \/ PlatformCheck(p)
       \/ ParseArgs(p)
       \/ DownloadDir(p)
       \/ CacheCheck(p)
       \/ DownloadEnter(p)
       \/ DownloadAttempt(p)
       \/ DownloadCleanup(p)
       \/ DownloadSleep(p)
       \/ Chmod(p)
       \/ EvictReadDir(p)
       \/ EvictRemove(p)
       \/ EvictSkip(p)
       \/ EvictDone(p)
       \/ Run(p)
       \/ RunExit(p)

SpecTwo == TwoInit /\ [][TwoNext]_vars

\* The positions at which the next step is the launcher's own: all but the
\* wait for the tool and the end of the run.
OwnPositions ==
    {"execute", "GetArgs", "GetDownloadDir", "GetLatestVersion", "GetCurrentVersion",
     "Exists", "Download", "downloadAttempt", "downloadCleanup", "downloadSleep",
     "MakeExecutable", "DeleteOtherVersions", "evictLoop", "run"}

\* The launcher moves on from a position of its own.
Proceeds(p) ==
    /\ pc[p] \in OwnPositions
    /\ \E q \in (OwnPositions \cup {"cmd.Wait", "done", "failed"}) \ {pc[p]} :
          pc' = [pc EXCEPT ![p] = q]

\* The launcher with its own steps always taken in the end: system calls
\* return and every request of the client ends, by http.Client.Timeout at the
\* latest (client.New, 3 minutes).  When the tool exits is up to the tool.
FairSpec == Init /\ [][Next]_vars /\ \A p \in Procs : WF_pc(Proceeds(p))

(***************************************************************************)
(* Claims about fs.Write (SpecWrite).                                      *)
(***************************************************************************)
\* A path is lexically nested in a directory when both are rooted or both are
\* not, and the elements of the normalised path are those of the normalised
\* directory followed by at least one more.
Nested(path, dir) ==
    /\ IsAbs(path) = IsAbs(dir)
    /\ Len(Elems(path)) > Len(Elems(dir))
    /\ SubSeq(Elems(path), 1, Len(Elems(dir))) = Elems(dir)

\* C3: fs.Write returns ErrInvalidPath, and creates or truncates no file, for
\* every destination whose normalised form is not lexically nested inside the
\* normalised cache directory.
C3_WriteRejectsOutside ==
    (Returned(1, "Write") /\ ~Nested(wr[1].path, wr[1].downloadDir))
        => (ret[1] = <<"ErrInvalidPath">> /\ fs = fs0[1])

\* C3 witness: Write has rejected a ..-traversal path and an absolute path
\* elsewhere (here the path /aa beside the cache directory /a).
C3_Witness ==
    /\ Returned(1, "Write")
    /\ wr[1].downloadDir = <<"/", "a">>
    /\ wr[1].path \in {<<"/", "a", "/", ".", ".">>, <<"/", "a", "a">>}
    /\ ret[1] = <<"ErrInvalidPath">>

\* The destination can be created: Write passes the path check and os.Create
\* succeeds on it.
Creatable(a) ==
    /\ IsInside(Clean(a.path), Clean(a.downloadDir))
    /\ Create(fs0[1], Clean(a.path), a.createFault).err = Nil

\* C4: with a readable source and a creatable destination inside the cache
\* directory, fs.Write fails with ErrIncompleteDownload exactly when
\* expectedSize > 0 and the source length differs from it, and succeeds
\* otherwise (so always when expectedSize <= 0).
C4_WriteSizeCheck ==
    (Returned(1, "Write") /\ Creatable(wr[1]) /\ wr[1].reader.failAt = -1)
        => LET a == wr[1]
               mismatch == a.expectedSize > 0 /\ Len(a.reader.data) # a.expectedSize
           IN  /\ mismatch => ret[1] = <<"ErrIncompleteDownload">>
               /\ ~mismatch => ret[1] = Nil
               /\ fs[Loc(a.path)].data = a.reader.data

\* C4 witness: a source longer than a positive expectedSize has been refused.
C4_Witness ==
    /\ Returned(1, "Write")
    /\ wr[1].reader.failAt = -1
    /\ wr[1].expectedSize = 1
    /\ Len(wr[1].reader.data) = 2
    /\ ret[1] = <<"ErrIncompleteDownload">>

(***************************************************************************)
(* Claims about fs.DeleteOtherVersions (SpecEvict).                        *)
(***************************************************************************)
\* The version a cache file name stands for: the name without the prefix and
\* without a trailing .exe.
VersionOfName(name) == TrimSuffix(TrimPrefix(name, PrefixTailwind), Exe)

\* The files with the prefix directly in the cache directory of file system f.
PrefixedFiles(f) ==
    {q \in Children(f, Loc(CacheDir)) : f[q].kind = "file" /\ HasPrefix(Last(q), PrefixTailwind)}

\* C5: after DeleteOtherVersions(dir, V) returns without error, every file
\* directly in dir with the prefix whose version is not V has been removed, and
\* the file of version V is still there.
C5_EvictRemovesEveryOtherVersion ==
    (Returned(1, "DeleteOtherVersions") /\ ret[1] = Nil)
        => \A q \in PrefixedFiles(fs0[1]) :
              IF VersionOfName(Last(q)) = ev[1].version
              THEN q \in DOMAIN fs
              ELSE q \notin DOMAIN fs

\* C6: DeleteOtherVersions leaves every subdirectory and every file without the
\* prefix as it was, and creates or modifies no entry.
C6_EvictFrame ==
    /\ \A q \in DOMAIN fs : q \in DOMAIN fs0[1] /\ fs[q] = fs0[1][q]
    /\ \A q \in DOMAIN fs0[1] \ PrefixedFiles(fs0[1]) : q \in DOMAIN fs

\* C6 witness: an eviction has returned after removing a file, in a directory
\* that also holds a subdirectory with the prefix and a file without it.
C6_Witness ==
    /\ Returned(1, "DeleteOtherVersions")
    /\ ret[1] = Nil
    /\ DOMAIN fs # DOMAIN fs0[1]
    /\ IsDirAt(fs, Join(CacheDir, PrefixTailwind \o V3))
    /\ IsFileAt(fs, Join(CacheDir, Other))

(***************************************************************************)
(* Claims about Client.Download (SpecDownload).                            *)
(***************************************************************************)
\* The events of a trace with the given operation, in order.
Events(t, op) == SelectSeq(t, LAMBDA e : e.op = op)

\* The errors a request itself can fail with: a transport error or a status
\* other than 200.
RequestErrors == {<<"ErrHTTP">>, <<"net.Error">>, <<"net.Timeout">>, <<"context.Canceled">>}

\* C1: Download never issues a fourth request, and whenever it returns an
\* error (as it does when every request fails) it has issued exactly 3
\* requests and the error is ErrDownloadFailed chaining the error of the last
\* (third) attempt.
C1_ThreeAttemptsThenDownloadFailed ==
    /\ Len(Events(trace[1], "GET")) <= 3
    /\ (Returned(1, "Download") /\ ret[1] # Nil)
          => /\ Len(Events(trace[1], "GET")) = 3
             /\ ErrIs(ret[1], "ErrDownloadFailed")
             /\ ret[1] = <<"ErrDownloadFailed">> \o dl[1].err

\* C1 witness: Download has returned after three requests, the last of which
\* timed out, with nothing written.
C1_Witness ==
    /\ Returned(1, "Download")
    /\ dl[1].err \in RequestErrors
    /\ ret[1] = <<"ErrDownloadFailed", "net.Timeout">>
    /\ Len(Events(trace[1], "GET")) = 3
    /\ fs = fs0[1]

\* C2 as claimed: whenever Download returns an error, nothing exists at the
\* destination path.
C2_NoFileAfterFailedDownload ==
    (Returned(1, "Download") /\ ret[1] # Nil) => ~ExistsAt(fs, dl[1].path)

\* The trace of Download is GET, then after every failed attempt a removal of
\* the destination, a sleep and the next GET.
CleanupFollowsFailure(t) ==
    \A i \in 1..Len(t) :
       /\ t[i].op = "GET" => (i = 1 \/ t[i - 1].op = "sleep")
       /\ t[i].op = "sleep" => (i > 1 /\ t[i - 1].op = "remove")
       /\ t[i].op = "remove" => (i > 1 /\ t[i - 1].op = "GET")

\* C2 amended: the removal of the destination is attempted after every failed
\* attempt, before the next request and before the return; and whenever
\* Download returns an error and the removal after the last attempt did not
\* fail (it removed the entry or found none), nothing exists at the
\* destination path.
C2_NoFileUnlessCleanupFailed ==
    /\ CleanupFollowsFailure(trace[1])
    /\ (Returned(1, "Download") /\ ret[1] # Nil)
          => /\ Last(trace[1]).op = "remove"
             /\ (dl[1].removeErr = Nil \/ IsNotExist(dl[1].removeErr))
                   => ~ExistsAt(fs, dl[1].path)

\* C2 witness: the third attempt broke off while the body was copied, and
\* Download has returned its error with the partial file removed.
C2_Witness ==
    /\ Returned(1, "Download")
    /\ ret[1] = <<"ErrDownloadFailed", "io.Copy">>
    /\ dl[1].removeErr = Nil
    /\ ~ExistsAt(fs, dl[1].path)
    /\ ~ExistsAt(fs0[1], dl[1].path)

\* The run of process p has downloaded a version, made it executable and
\* evicted the others without error.
InstalledAndEvicted(p) ==
    /\ top[p] = "execute"
    /\ pc[p] \in {"run", "cmd.Wait", "done", "failed"}
    /\ Len(Events(trace[p], "chmod")) = 1
    /\ Len(Events(trace[p], "readdir")) >= 1
    /\ (pc[p] = "failed" => ret[p][1] = "failed to run tailwind")

\* C7 as claimed: once a run has downloaded version V, made it executable and
\* DeleteOtherVersions has returned without error, at most one file with the
\* prefix remains in the cache directory.
C7_AtMostOneEntryAfterInstall ==
    InstalledAndEvicted(1) => Cardinality(PrefixedFiles(fs)) <= 1

\* C8 as claimed: GetLatestVersion returns ErrHTTP for every transport failure
\* and for every response whose status is not a success status, whatever the
\* body.
C8_NonSuccessIsErrHTTP ==
    \A p \in Procs :
       (Returned(p, "GetLatestVersion")
          /\ (lat[p].resp.kind = "error" \/ lat[p].resp.status \notin 200..299))
       => ErrIs(ret[p], "ErrHTTP")

\* The run of process p has got past the resolution of "latest".
Resolved(p) ==
    /\ top[p] = "execute"
    /\ pc[p] \notin {"execute", "GetArgs", "GetDownloadDir", "GetLatestVersion"}
    /\ Len(Events(trace[p], "GET")) >= 1
    /\ trace[p][2] = Ev("GET", Latest)

\* The version the cache directory held when the run began: the version of
\* the first file with the prefix, in the order of the names.
InstalledBefore(p) ==
    LET names == {Last(q) : q \in PrefixedFiles(fs0[p])} IN
    IF names = {} THEN <<>>
    ELSE <<VersionOfName(CHOOSE n \in names : \A m \in names : n = m \/ StrLess(n, m))>>

ResolveFailures ==
    {"failed to determine latest version",
     "failed to check for latest version of tailwind and no version is installed"}

\* C9: when "latest" was asked for and its resolution failed with ErrHTTP, the
\* launcher reads the cache directory next.  With a version installed it goes
\* on with that version and does not fail at the resolution, unless the
\* directory could not be read; with none installed the run has failed
\* without a download request.
C9_FallsBackToInstalledVersion ==
    \A p \in Procs :
       (Resolved(p) /\ ErrIs(main[p].verErr, "ErrHTTP"))
       => /\ Len(trace[p]) >= 3 => trace[p][3] = Ev("readdir", main[p].downloadDir)
          /\ pc[p] # "GetCurrentVersion" =>
               /\ Len(trace[p]) >= 3
               /\ IF pc[p] = "failed" /\ ret[p][1] \in ResolveFailures
                  THEN /\ ret[p][1] # "failed to determine latest version"
                       /\ Len(trace[p]) = 3
                       /\ InstalledBefore(p) # <<>> => ret[p] = <<ret[p][1], "os.ReadDir">>
                  ELSE InstalledBefore(p) = <<main[p].actualVersion>>

\* C9 witness: the resolution failed with ErrHTTP, the cache held version v3,
\* and the run has gone on to start that version.
C9_Witness ==
    /\ pc[1] = "done"
    /\ ErrIs(main[1].verErr, "ErrHTTP")
    /\ main[1].actualVersion = V3
    /\ Len(Events(trace[1], "run")) = 1

\* C10: when the resolution of "latest" failed with an error that is not
\* ErrHTTP, the run has failed with that error straight after the request: the
\* cache directory was not read, nothing was downloaded and the tool was not
\* started.
C10_OtherResolveErrorsAreFatal ==
    \A p \in Procs :
       (top[p] = "execute" /\ pc[p] # "off" /\ main[p].verErr # Nil
          /\ ~ErrIs(main[p].verErr, "ErrHTTP"))
       => /\ pc[p] = "failed"
          /\ ret[p] = <<"failed to determine latest version">> \o main[p].verErr
          /\ trace[p] = <<Ev("mkdir", CacheDir), Ev("GET", Latest)>>

\* C10 witness: the body of the response was not JSON and the run has failed.
C10_Witness ==
    /\ pc[1] = "failed"
    /\ main[1].verErr = <<"json.SyntaxError">>
    /\ ret[1] = <<"failed to determine latest version", "json.SyntaxError">>
    /\ Events(trace[1], "readdir") = <<>>

\* The run of process p is over: execute has returned.
Terminated(p) == pc[p] \in {"done", "failed"}

\* C11 as claimed: every launcher run that has begun reaches Done or Failed in
\* the end, whatever the download requests and the started tool do.
C11_EveryRunTerminates == (pc[1] = "execute") ~> Terminated(1)

\* The operations of a run from its cache check on, without the check itself.
AfterCacheCheck(t) ==
    IF Events(t, "stat") = <<>> THEN <<>>
    ELSE LET i == CHOOSE j \in 1..Len(t) : t[j].op = "stat" IN SubSeq(t, i + 1, Len(t))

\* The step of the sequence Download, MakeExecutable, DeleteOtherVersions,
\* Invoke that the k-th operation of u belongs to: the removals before the
\* chmod are the cleanups of Download, those after it the evictions.
StepOf(u, k) ==
    IF u[k].op \in {"GET", "sleep"} THEN 1
    ELSE IF u[k].op = "chmod" THEN 2
    ELSE IF u[k].op = "readdir" THEN 3
    ELSE IF u[k].op = "run" THEN 4
    ELSE IF \E j \in 1..(k - 1) : u[j].op = "chmod" THEN 3 ELSE 1

\* C12: on a cache miss the operations of Download, MakeExecutable,
\* DeleteOtherVersions and Invoke come strictly in that order.  The chmod is
\* of the new entry and directly follows the request that succeeded; the
\* listing of the eviction directly follows the chmod; the tool is started
\* only after both; and a run that failed in one step has done nothing of the
\* later steps.
C12_InstallStepsInOrder ==
    \A p \in Procs :
       top[p] = "execute" =>
          LET u == AfterCacheCheck(trace[p])
              miss == Events(u, "GET") # <<>>
          IN  /\ \A k \in 2..Len(u) : StepOf(u, k - 1) <= StepOf(u, k)
              /\ \A k \in 1..Len(u) :
                    /\ u[k].op = "chmod" => /\ k > 1 /\ u[k - 1].op = "GET"
                                            /\ u[k].arg = main[p].filePath
                    /\ u[k].op = "readdir" => k > 1 /\ u[k - 1].op = "chmod"
                    /\ (u[k].op = "run" /\ miss) => \E j \in 1..(k - 1) : u[j].op = "readdir"
              /\ Len(Events(u, "chmod")) <= 1 /\ Len(Events(u, "readdir")) <= 1
              /\ pc[p] = "MakeExecutable" => (u # <<>> /\ Last(u).op = "GET")
              /\ pc[p] = "DeleteOtherVersions" =>
                    /\ Last(u).op = "chmod"
                    /\ IsFileAt(fs, main[p].filePath) /\ fs[Loc(main[p].filePath)].exec
              /\ (pc[p] = "failed" /\ ret[p][1] = "failed to download tailwind")
                    => \A k \in 1..Len(u) : StepOf(u, k) = 1
              /\ (pc[p] = "failed" /\ ret[p][1] = "failed to make tailwind executable")
                    => \A k \in 1..Len(u) : StepOf(u, k) <= 2
              /\ (pc[p] = "failed" /\ ret[p][1] = "failed to delete older version")
                    => \A k \in 1..Len(u) : StepOf(u, k) <= 3

\* C12 witness: a run that missed the cache has downloaded on the second
\* attempt, made the entry executable, evicted an older version and run the
\* tool to its end.
C12_Witness ==
    LET u == AfterCacheCheck(trace[1]) IN
    /\ pc[1] = "done"
    /\ Len(Events(u, "GET")) = 2
    /\ Len(Events(u, "chmod")) = 1
    /\ Len(Events(u, "remove")) = 2
    /\ Last(u).op = "run"

\* C13: in every launcher run the tool is started at most once; it has been
\* started exactly once when the run waits for it, is done or has failed in
\* running it, and not at all when the run failed at an earlier step or has
\* not got to it yet.
C13_InvokedAtMostOnce ==
    \A p \in Procs :
       top[p] = "execute" =>
          LET n == Len(Events(trace[p], "run")) IN
          /\ n <= 1
          /\ pc[p] \in {"cmd.Wait", "done"} => n = 1
          /\ pc[p] = "failed" => (n = 1 <=> ret[p][1] = "failed to run tailwind")
          /\ pc[p] \in OwnPositions => n = 0
          /\ n = 1 => Last(trace[p]).op = "run"

\* C13 witness: the second run on a machine has started the tool once, after
\* the first run failed in parsing its arguments without starting it.
C13_Witness ==
    /\ pc[1] = "done"
    /\ main[1].runs = 2
    /\ Len(Events(trace[1], "run")) = 1
    /\ fs = fs0[1]

\* The operations of a run before its cache check.
BeforeCacheCheck(t) ==
    IF Events(t, "stat") = <<>> THEN t
    ELSE LET i == CHOOSE j \in 1..Len(t) : t[j].op = "stat" IN SubSeq(t, 1, i - 1)

\* The failures of the launcher, one per step: the text execute puts in front,
\* the causes the step can fail with, and the last operation of a run that
\* failed there.
StepFailures ==
    {[context |-> "failed to parse arguments",
      causes |-> {<<"ErrMissingVersionArg">>}, lastOps |-> {}],
     [context |-> "failed to determine directory to download tailwind to",
      causes |-> {<<"os.UserCacheDir">>, <<"os.MkdirAll">>}, lastOps |-> {"mkdir"}],
     [context |-> "failed to determine latest version",
      causes |-> {<<"json.SyntaxError">>, <<"io.EOF">>}, lastOps |-> {"GET"}],
     [context |-> "failed to check for latest version of tailwind and no version is installed",
      causes |-> {<<"os.ReadDir">>, <<"ErrNotInstalled">>}, lastOps |-> {"readdir"}],
     [context |-> "failed to check if tailwind is already installed",
      causes |-> {<<"os.Stat">>}, lastOps |-> {"stat"}],
     [context |-> "failed to download tailwind",
      causes |-> {<<"ErrDownloadFailed">> \o c :
                    c \in {<<"ErrHTTP">>, <<"net.Error">>, <<"net.Timeout">>, <<"io.Copy">>,
                           <<"os.Create">>, <<"ErrIncompleteDownload">>, <<"ErrInvalidPath">>}},
      lastOps |-> {"remove"}],
     [context |-> "failed to make tailwind executable",
      causes |-> {<<"os.Chmod">>}, lastOps |-> {"chmod"}],
     [context |-> "failed to delete older version",
      causes |-> {<<"os.ReadDir">>, <<"os.Remove">>}, lastOps |-> {"readdir", "remove"}],
     [context |-> "failed to run tailwind",
      causes |-> {<<"exec.Error">>, <<"exec.ExitError">>}, lastOps |-> {"run"}]}

\* C14: a launcher run that has failed returns an error made of the text of
\* the step that failed and the cause that step failed with (the platform
\* check returns ErrUnsupportedPlatform itself), and the last operation of the
\* run is one of that step: no later step was executed.  No step is entered
\* twice in a run.  The process exits with status 1 after a failure, and with
\* status 0 only when the tool was run and exited with success.
C14_FailureIsTerminalAndWrapsCause ==
    \A p \in Procs :
       top[p] = "execute" =>
          /\ pc[p] = "failed" =>
                \/ ret[p] = <<"ErrUnsupportedPlatform">> /\ trace[p] = <<>>
                \/ \E f \in StepFailures :
                      /\ ret[p][1] = f.context
                      /\ Tail(ret[p]) \in f.causes
                      /\ IF f.lastOps = {} THEN trace[p] = <<>>
                         ELSE trace[p] # <<>> /\ Last(trace[p]).op \in f.lastOps
          /\ pc[p] # "failed" => ret[p] = Nil
          /\ \A op \in {"mkdir", "stat", "chmod", "run"} : Len(Events(trace[p], op)) <= 1
          /\ Len(Events(BeforeCacheCheck(trace[p]), "GET")) <= 1
          /\ Len(Events(BeforeCacheCheck(trace[p]), "readdir")) <= 1
          /\ Terminated(p) =>
                /\ ExitStatus(p) = 0 <=> pc[p] = "done"
                /\ pc[p] = "done" => Last(trace[p]).op = "run"

\* C14 witness: a run has failed in the eviction, after the download and the
\* chmod, because an older version could not be removed; the exit status is 1.
C14_Witness ==
    /\ pc[1] = "failed"
    /\ ret[1] = <<"failed to delete older version", "os.Remove">>
    /\ Last(trace[1]).op = "remove"
    /\ Len(Events(trace[1], "chmod")) = 1
    /\ ExitStatus(1) = 1

\* The entry of the version the run of process p resolved to was in the cache
\* when the run began, put there by an earlier run on the machine that
\* downloaded it completely and made it executable.
InstalledByEarlierRun(p) ==
    /\ top[p] = "execute"
    /\ main[p].runs > 1
    /\ Events(trace[p], "stat") # <<>>
    /\ LET t == Loc(main[p].filePath) IN
       t \in DOMAIN fs0[p] /\ \E b \in server.bodies : fs0[p][t] = File(b, TRUE)

\* C15: a run that resolves to a version an earlier run has installed issues
\* no download request: after the cache check it does nothing but start the
\* tool, and it fails only if os.Stat itself or the tool fails.
C15_InstalledVersionIsReused ==
    \A p \in Procs :
       InstalledByEarlierRun(p) =>
          LET u == AfterCacheCheck(trace[p]) IN
          /\ Events(u, "GET") = <<>>
          /\ \A k \in 1..Len(u) : u[k].op = "run"
          /\ pc[p] \in {"run", "cmd.Wait", "done", "failed"}
          /\ pc[p] = "failed" =>
                ret[p][1] \in {"failed to check if tailwind is already installed",
                               "failed to run tailwind"}
          /\ fs = fs0[p]

\* C15 witness: the second run on the machine has run version v4, which the
\* first run had installed, to its end without a request for it.
C15_Witness ==
    /\ InstalledByEarlierRun(1)
    /\ pc[1] = "done"
    /\ main[1].actualVersion = V4
    /\ AfterCacheCheck(trace[1]) = <<Ev("run", [path |-> main[1].filePath, args |-> main[1].args])>>

\* C16: when Download returns success, the successful attempt is the k-th
\* (k at most 3) and the first to succeed: exactly k requests were issued, all
\* but the last followed by the removal and the delay, and the return follows
\* the k-th request directly.  The destination is then a file holding exactly
\* the body of the k-th response.
C16_FirstSuccessEndsDownload ==
    (Returned(1, "Download") /\ ret[1] = Nil) =>
       LET k == dl[1].attempt IN
       /\ k \in 1..maxRetries
       /\ Len(Events(trace[1], "GET")) = k
       /\ Len(Events(trace[1], "remove")) = k - 1
       /\ Len(Events(trace[1], "sleep")) = k - 1
       /\ CleanupFollowsFailure(trace[1])
       /\ Last(trace[1]).op = "GET"
       /\ dl[1].resp.kind = "response" /\ dl[1].resp.status = 200
       /\ IsFileAt(fs, dl[1].path)
       /\ fs[Loc(dl[1].path)].data = dl[1].resp.body

\* C16 witness: the third attempt succeeded with an empty body, although the
\* removal after the second attempt had failed and left a partial file.
C16_Witness ==
    /\ Returned(1, "Download") /\ ret[1] = Nil
    /\ dl[1].attempt = 3
    /\ dl[1].removeErr = <<"os.Remove">>
    /\ dl[1].resp.body = <<>>
    /\ fs[Loc(dl[1].path)].data = <<>>
    /\ ~ExistsAt(fs0[1], dl[1].path)

\* C17: GetCurrentVersion on a directory that can be listed returns
\* ErrNotInstalled exactly when the directory holds no entry that carries the
\* prefix and is no directory; otherwise it returns, without error, the name of
\* such an entry (the first in the order of the names) less the prefix and a
\* trailing .exe.
C17_CurrentVersionOfDirectory ==
    (Returned(1, "GetCurrentVersion") /\ ret[1] # <<"os.ReadDir">>) =>
       LET names == {Last(q) : q \in PrefixedFiles(fs)} IN
       /\ ret[1] = <<"ErrNotInstalled">> <=> names = {}
       /\ ret[1] # <<"ErrNotInstalled">> =>
             /\ ret[1] = Nil
             /\ \E n \in names : /\ lat[1].version = TrimSuffix(TrimPrefix(n, PrefixTailwind), Exe)
                                 /\ \A m \in names : n = m \/ StrLess(n, m)
       /\ fs = fs0[1]

\* C17 witness: the directory holds a subdirectory with the prefix, a file of
\* another tool and tailwindcss-v4.exe, and v4 is returned.
C17_Witness ==
    /\ Returned(1, "GetCurrentVersion")
    /\ ret[1] = Nil
    /\ lat[1].version = V4
    /\ {Last(q) : q \in PrefixedFiles(fs)} = {PrefixTailwind \o V4Exe}
    /\ \E q \in Children(fs, Loc(CacheDir)) : fs[q].kind = "dir" /\ HasPrefix(Last(q), PrefixTailwind)
    /\ \E q \in Children(fs, Loc(CacheDir)) : Last(q) = Other

\* C18 as claimed: in every launcher run the version that the path of the
\* cache entry and the URL of the download are built from is a concrete tag:
\* it is neither "latest" nor empty.
C18_VersionIsConcreteTag ==
    \A p \in Procs :
       (top[p] = "execute" /\ Events(trace[p], "stat") # <<>>) =>
          /\ main[p].actualVersion \notin {Latest, <<>>}
          /\ main[p].filePath = Join(main[p].downloadDir,
                                     PrefixTailwind \o main[p].actualVersion
                                       \o (IF main[p].goos = Windows THEN Exe ELSE <<>>))
          /\ \A k \in 1..Len(AfterCacheCheck(trace[p])) :
                AfterCacheCheck(trace[p])[k].op = "GET"
                   => AfterCacheCheck(trace[p])[k].arg.version \notin {Latest, <<>>}

\* C19: for a response with status 200 whose body is a JSON object with a
\* tag_name field, GetLatestVersion has issued one request and returns the
\* value of that field as it is, without error.
C19_LatestVersionIsTheTag ==
    \A p \in Procs :
       (Returned(p, "GetLatestVersion")
          /\ lat[p].resp.kind = "response" /\ lat[p].resp.status = 200
          /\ lat[p].resp.body.form = "object"
          /\ "tag_name" \in DOMAIN lat[p].resp.body.fields)
       => /\ ret[p] = Nil
          /\ lat[p].version = lat[p].resp.body.fields["tag_name"]
          /\ trace[p] = <<Ev("GET", Latest)>>

\* C19 witness: a response with status 200 and the tag v4 gave the version v4.
C19_Witness ==
    /\ Returned(1, "GetLatestVersion")
    /\ lat[1].resp = [kind |-> "response", status |-> 200, body |-> JsonBody("tag_name" :> V4)]
    /\ lat[1].version = V4
    /\ ret[1] = Nil

SupportedPairs ==
    {<<Linux, Amd64>>, <<Linux, Arm64>>, <<Darwin, Amd64>>, <<Darwin, Arm64>>,
     <<Windows, Amd64>>, <<Windows, Arm64>>}

\* C20: IsSupported answers true for the six pairs of linux, darwin or windows
\* with amd64 or arm64, and false for every other pair.
C20_SupportedPlatforms ==
    \A p \in Procs :
       Returned(p, "IsSupported") =>
          (lat[p].supported <=> <<lat[p].os, lat[p].arch>> \in SupportedPairs)

\* C20 witness: one call has accepted darwin/arm64 and the other has rejected
\* linux/386.
C20_Witness ==
    /\ Returned(1, "IsSupported") /\ Returned(2, "IsSupported")
    /\ lat[1] = [os |-> Darwin, arch |-> Arm64, supported |-> TRUE]
    /\ lat[2] = [os |-> Linux, arch |-> I386, supported |-> FALSE]

\* C21: a launcher run on a pair of operating system and architecture that is
\* not one of the six supported pairs ends at the platform check, failed with
\* the unsupported-platform error: it has sent no request and has touched
\* nothing in the file system (no directory made, no stat, no write, no
\* removal).
C21_UnsupportedPlatformFailsFirst ==
    \A p \in Procs :
       (top[p] = "execute" /\ <<main[p].goos, main[p].goarch>> \notin SupportedPairs
          /\ pc[p] # "execute")
       => /\ pc[p] = "failed"
          /\ ErrIs(ret[p], "ErrUnsupportedPlatform")
          /\ trace[p] = <<>>
          /\ fs = fs0[p]

\* C21 witness: a run on linux/386 has failed at the platform check.
C21_Witness ==
    /\ top[1] = "execute" /\ pc[1] = "failed"
    /\ main[1].goos = Linux /\ main[1].goarch = I386
    /\ ret[1] = <<"ErrUnsupportedPlatform">>
    /\ trace[1] = <<>>

(***************************************************************************)
(* Claims about the artifact name and the libc probe (SpecName, SpecMusl). *)
(***************************************************************************)
\* What the probe has to go on: /proc/self/maps is readable and holds "musl",
\* or one of the three musl linker paths exists.
MuslEvidence(reader) ==
    \/ reader.readable /\ \E i \in 1..Len(reader.maps) :
          i + 3 <= Len(reader.maps) /\ SubSeq(reader.maps, i, i + 3) = <<"m", "u", "s", "l">>
    \/ "/lib/ld-musl-x86_64.so.1" \in reader.linkers
    \/ "/lib/ld-musl-aarch64.so.1" \in reader.linkers
    \/ "/lib/ld-musl-armhf.so.1" \in reader.linkers

\* The name as the naming rule gives it.
ArtifactName(os, arch, musl) ==
    <<"t", "a", "i", "l", "w", "i", "n", "d", "c", "s", "s", "-">>
    \o (IF os = <<"d", "a", "r", "w", "i", "n">> THEN <<"m", "a", "c", "o", "s">> ELSE os)
    \o <<"-">>
    \o (IF arch = <<"a", "m", "d", "6", "4">> THEN <<"x", "6", "4">> ELSE arch)
    \o (IF os = <<"l", "i", "n", "u", "x">> /\ musl THEN <<"-", "m", "u", "s", "l">> ELSE <<>>)
    \o (IF os = <<"w", "i", "n", "d", "o", "w", "s">> THEN <<".", "e", "x", "e">> ELSE <<>>)

\* C22: the name GetNameWithReader returns is the one the naming rule gives
\* for the operating system, the architecture and the result of the probe;
\* two calls with the same three give the same name, and a call changes
\* nothing.
C22_NameFollowsNamingRule ==
    /\ \A p \in Procs :
          Returned(p, "GetNameWithReader") =>
             /\ lat[p].name = ArtifactName(lat[p].os, lat[p].arch, MuslEvidence(lat[p].reader))
             /\ fs = fs0[p] /\ ret[p] = Nil
    /\ \A p, q \in Procs :
          (Returned(p, "GetNameWithReader") /\ Returned(q, "GetNameWithReader")
             /\ lat[p].os = lat[q].os /\ lat[p].arch = lat[q].arch
             /\ MuslEvidence(lat[p].reader) = MuslEvidence(lat[q].reader))
          => lat[p].name = lat[q].name

\* C22 witness: linux/amd64 with a musl linker on disk gave
\* tailwindcss-linux-x64-musl, and windows/amd64 with musl in the maps gave
\* tailwindcss-windows-x64.exe.
C22_Witness ==
    /\ Returned(1, "GetNameWithReader") /\ Returned(2, "GetNameWithReader")
    /\ lat[1].os = Linux /\ lat[1].arch = Amd64
    /\ lat[1].reader = FileReader(TRUE, <<"l", "i", "b", "c", ".", "s", "o">>, {muslLinkers[2]})
    /\ lat[1].name = PrefixTailwind \o <<"l", "i", "n", "u", "x", "-", "x", "6", "4", "-", "m", "u", "s", "l">>
    /\ lat[2].os = Windows /\ lat[2].arch = Amd64
    /\ lat[2].reader.readable /\ Contains(lat[2].reader.maps, Musl)
    /\ lat[2].name = PrefixTailwind \o <<"w", "i", "n", "d", "o", "w", "s", "-", "x", "6", "4", ".", "e", "x", "e">>

\* The platform key of a call of GetNameWithReader: the operating system, the
\* architecture and the libc flavour, which is musl when the call has run the
\* probe (it does on linux only) and the probe had evidence of musl.
PlatformKey(p) ==
    <<lat[p].os, lat[p].arch, trace[p] # <<>> /\ MuslEvidence(lat[p].reader)>>

\* C23: two calls of GetNameWithReader with different platform keys return
\* different names.
C23_NameIsInjective ==
    \A p, q \in Procs :
       (Returned(p, "GetNameWithReader") /\ Returned(q, "GetNameWithReader")
          /\ PlatformKey(p) # PlatformKey(q))
       => lat[p].name # lat[q].name

\* C23 witness: linux/arm64 with musl and linux/arm64 without it got two
\* names.
C23_Witness ==
    /\ Returned(1, "GetNameWithReader") /\ Returned(2, "GetNameWithReader")
    /\ PlatformKey(1) = <<Linux, Arm64, TRUE>>
    /\ PlatformKey(2) = <<Linux, Arm64, FALSE>>
    /\ lat[1].name # lat[2].name

\* C24: isMusl answers true exactly when /proc/self/maps is readable and
\* holds "musl" or one of the three musl linker paths exists, and false
\* otherwise; it reads the maps first and asks for a linker path only when
\* the maps gave no match.
C24_MuslProbe ==
    \A p \in Procs :
       Returned(p, "isMusl") =>
          /\ lat[p].musl = MuslEvidence(lat[p].reader)
          /\ trace[p][1] = Ev("ReadFile", "/proc/self/maps")
          /\ (\E k \in 1..Len(trace[p]) : trace[p][k].op = "FileExists")
                => ~(lat[p].reader.readable /\ \E i \in 1..Len(lat[p].reader.maps) :
                        i + 3 <= Len(lat[p].reader.maps)
                        /\ SubSeq(lat[p].reader.maps, i, i + 3) = <<"m", "u", "s", "l">>)
          /\ (~lat[p].musl) => Len(trace[p]) = 4

\* C24 witness: the maps are readable and hold no "musl", the aarch64 linker
\* exists: isMusl has answered true after asking for two linker paths.
C24_Witness ==
    /\ Returned(1, "isMusl")
    /\ lat[1].reader = FileReader(TRUE, <<"l", "i", "b", "c", ".", "s", "o">>,
                                  {"/lib/ld-musl-aarch64.so.1", "/lib/ld-linux-x86-64.so.2"})
    /\ lat[1].musl
    /\ Len(trace[1]) = 3

(***************************************************************************)
(* Claims about GetArgs (SpecArgs).                                        *)
(***************************************************************************)
\* The tokens of a list at the indices outside a set, in their order.
RECURSIVE Without(_, _, _)
Without(args, removed, i) ==
    IF i > Len(args) THEN <<>>
    ELSE (IF i \in removed THEN <<>> ELSE <<args[i]>>) \o Without(args, removed, i + 1)

\* The indices of the "-version" tokens of a list.
VersionTokens(args) == {i \in 1..Len(args) : args[i] = <<"-", "v", "e", "r", "s", "i", "o", "n">>}

Highest(S) == CHOOSE i \in S : \A j \in S : j <= i

\* C25 as claimed: when GetArgs returns without error, the arguments it
\* returns are the list without every "-version" token and without the token
\* after each of them, and the version is the token after the last "-version"
\* token, or "latest" when the list has no such token.
C25_EveryVersionTokenIsAFlag ==
    \A p \in Procs :
       (Returned(p, "GetArgs") /\ ret[p] = Nil) =>
          LET argv == lat[p].argv
              T == VersionTokens(argv)
          IN  /\ lat[p].args = Without(argv, T \cup {i + 1 : i \in T}, 1)
              /\ IF T = {} THEN lat[p].version = <<"l", "a", "t", "e", "s", "t">>
                 ELSE /\ Highest(T) < Len(argv)
                      /\ lat[p].version = argv[Highest(T) + 1]

\* The "-version" flags of a list, the tokens being paired from the left: a
\* "-version" token is a flag unless it is the value of the flag before it,
\* that is, when the "-version" tokens directly before it are even in number.
VersionFlags(args) ==
    {i \in VersionTokens(args) :
        \E s \in 1..i : /\ \A j \in s..i : j \in VersionTokens(args)
                        /\ (s = 1 \/ (s - 1) \notin VersionTokens(args))
                        /\ (i - s) % 2 = 0}

\* C25, amended: when GetArgs returns without error, the arguments it returns
\* are the list without every "-version" flag and without the value after
\* each flag, the other tokens in their order, and the version is the value
\* of the last flag, or "latest" when the list has no flag.
C25_FlagsAndValuesRemoved ==
    \A p \in Procs :
       (Returned(p, "GetArgs") /\ ret[p] = Nil) =>
          LET argv == lat[p].argv
              F == VersionFlags(argv)
          IN  /\ lat[p].args = Without(argv, F \cup {i + 1 : i \in F}, 1)
              /\ lat[p].version = IF F = {} THEN <<"l", "a", "t", "e", "s", "t">>
                                  ELSE argv[Highest(F) + 1]

\* C25 witness: -i -version v3 -version v4 gave the version v4 and the
\* arguments -i.
C25_Witness ==
    /\ Returned(1, "GetArgs") /\ ret[1] = Nil
    /\ lat[1].argv = <<OtherArg, FlagVersion, V3, FlagVersion>> \o <<V4>>
    /\ lat[1].version = V4
    /\ lat[1].args = <<OtherArg>>

(***************************************************************************)
(* Claims about the arguments of a launcher run (SpecOnce).                *)
(***************************************************************************)
\* The run is past the call of GetArgs.
Parsed(p) == top[p] = "execute" /\ pc[p] \notin {"off", "execute", "GetArgs"}

\* What a run whose arguments were refused looks like: it has failed, GetArgs
\* gave it neither a version nor arguments, and it has made no directory,
\* sent no request and changed nothing.
RefusedAtOnce(p) ==
    /\ pc[p] = "failed"
    /\ main[p].version = <<>> /\ main[p].args = <<>>
    /\ trace[p] = <<>>
    /\ fs = fs0[p]

\* C26 as claimed: the arguments are refused with ErrMissingVersionArg exactly
\* when the last token of the list is "-version"; the run then fails before
\* it makes the cache directory or sends a request.
C26_MissingWhenLastTokenIsVersion ==
    \A p \in Procs :
       Parsed(p) =>
          /\ ErrIs(ret[p], "ErrMissingVersionArg")
                <=> Len(main[p].argv) \in VersionTokens(main[p].argv)
          /\ ErrIs(ret[p], "ErrMissingVersionArg") => RefusedAtOnce(p)

\* C26, amended: the arguments are refused with ErrMissingVersionArg exactly
\* when the last token of the list is a "-version" flag, the tokens being
\* paired from the left (a "-version" that is the value of the flag before it
\* is no flag); the run then fails before it makes the cache directory or
\* sends a request.
C26_MissingWhenLastTokenIsFlag ==
    \A p \in Procs :
       Parsed(p) =>
          /\ ErrIs(ret[p], "ErrMissingVersionArg")
                <=> Len(main[p].argv) \in VersionFlags(main[p].argv)
          /\ ErrIs(ret[p], "ErrMissingVersionArg") => RefusedAtOnce(p)

\* C26 witness: the run on -i -version has failed with ErrMissingVersionArg.
C26_Witness ==
    /\ Parsed(1)
    /\ main[1].argv = <<OtherArg, FlagVersion>>
    /\ ret[1] = <<"failed to parse arguments", "ErrMissingVersionArg">>
    /\ RefusedAtOnce(1)

(***************************************************************************)
(* Claims about the delays and the cancellation of Download                *)
(* (SpecDownload).                                                         *)
(***************************************************************************)
\* The number of events with an operation among the first k of a trace.
CountBefore(t, op, k) == Len(Events(SubSeq(t, 1, k), op))

\* C27: Download takes the delay once before every attempt but the first:
\* no delay comes before the first request, the n-th request has exactly n-1
\* delays before it, the last of them after the removal that followed request
\* n-1, and no delay comes after the third request or after Download has
\* returned.
C27_OneDelayBeforeEachRetry ==
    LET t == trace[1] IN
    /\ \A k \in 1..Len(t) :
          /\ t[k].op = "GET" => CountBefore(t, "sleep", k - 1) = CountBefore(t, "GET", k - 1)
          /\ t[k].op = "sleep" =>
                /\ CountBefore(t, "sleep", k - 1) = CountBefore(t, "GET", k - 1) - 1
                /\ CountBefore(t, "GET", k - 1) < 3
                /\ k > 1 /\ t[k - 1].op = "remove"
    /\ (t # <<>> /\ t[Len(t)].op = "sleep") => pc[1] = "downloadAttempt"
    /\ Returned(1, "Download") =>
          /\ CountBefore(t, "sleep", Len(t)) = CountBefore(t, "GET", Len(t)) - 1
          /\ ret[1] = Nil => t[Len(t)].op = "GET"
          /\ ret[1] # Nil => t[Len(t)].op = "remove"

\* C27 witness: Download has succeeded at the third request, after two
\* delays.
C27_Witness ==
    /\ Returned(1, "Download") /\ ret[1] = Nil
    /\ Len(Events(trace[1], "GET")) = 3
    /\ Len(Events(trace[1], "sleep")) = 2

\* A step of Download made with the context done: an attempt sends its
\* request and fails there with the error of the context, writing nothing,
\* and is followed by the removal; the removal after an attempt before the
\* third is followed by the delay and the next attempt.
CancelledStep ==
    (dl[1] # <<>> /\ dl[1].ctxDone /\ pc'[1] # pc[1]) =>
       /\ pc[1] = "downloadAttempt" =>
             /\ pc'[1] = "downloadCleanup"
             /\ fs' = fs
             /\ dl'[1].err = <<"context.Canceled">>
             /\ trace'[1] = Append(trace[1], Ev("GET", dl[1].url))
       /\ (pc[1] = "downloadCleanup" /\ Len(Events(trace[1], "GET")) < 3) =>
             pc'[1] = "downloadSleep"
       /\ pc[1] = "downloadSleep" => pc'[1] = "downloadAttempt"
       /\ pc'[1] = "returned" =>
             /\ pc[1] = "downloadCleanup"
             /\ Len(Events(trace[1], "GET")) = 3

\* C28: once the context of Download is done, before the call or in the
\* course of it, every attempt still to come is made, fails at its request
\* with the error of the context and writes nothing; Download never returns
\* success but ErrDownloadFailed, after the third request.
C28_CancelledDownloadFailsAfterThree ==
    /\ [][CancelledStep]_vars
    /\ []((Returned(1, "Download") /\ dl[1].ctxDone) =>
             /\ ErrIs(ret[1], "ErrDownloadFailed")
             /\ Len(Events(trace[1], "GET")) = 3)

\* C28 witness: Download has returned ErrDownloadFailed with the error of the
\* context after three requests, none of which was answered.
C28_Witness ==
    /\ Returned(1, "Download") /\ dl[1].ctxDone
    /\ ret[1] = <<"ErrDownloadFailed", "context.Canceled">>
    /\ Len(Events(trace[1], "GET")) = 3
    /\ dl[1].resp = [kind |-> "none"]

(***************************************************************************)
(* Claims about the cache hit and the failed eviction (Spec).              *)
(***************************************************************************)
\* The location of the cache entry of the version a run has resolved to.
EntryOf(p) ==
    Append(Loc(main[p].downloadDir),
           <<"t", "a", "i", "l", "w", "i", "n", "d", "c", "s", "s", "-">>
           \o main[p].actualVersion
           \o (IF main[p].goos = <<"w", "i", "n", "d", "o", "w", "s">>
               THEN <<".", "e", "x", "e">> ELSE <<>>))

\* The run of process p has made its cache check, and the entry of the
\* version it resolved to was in the cache when the run began.
CacheHit(p) ==
    /\ top[p] = "execute"
    /\ Events(trace[p], "stat") # <<>>
    /\ EntryOf(p) \in DOMAIN fs0[p]

\* C29: a run whose cache check finds the entry of the resolved version goes
\* on to start that entry with the arguments left by GetArgs and does nothing
\* else: no request for the download, no write, no chmod, no listing and no
\* removal, and the file system is as it was when the run began.  Only a
\* failure of os.Stat itself ends the run before the start.
C29_CacheHitOnlyInvokes ==
    \A p \in Procs :
       CacheHit(p) =>
          LET u == AfterCacheCheck(trace[p]) IN
          /\ fs = fs0[p]
          /\ dl[p] = <<>> /\ ev[p] = <<>>
          /\ Len(u) <= 1
          /\ u # <<>> => u[1] = Ev("run", [path |-> main[p].filePath, args |-> main[p].args])
          /\ Loc(main[p].filePath) = EntryOf(p)
          /\ u = <<>> =>
                \/ pc[p] = "run"
                \/ /\ pc[p] = "failed"
                   /\ ret[p][1] = "failed to check if tailwind is already installed"
          /\ u # <<>> => pc[p] \in {"cmd.Wait", "done", "failed"}

\* C29 witness: the first run on a machine whose cache held version v3 beside
\* another file resolved to v3, on windows, and has run it to the end with
\* both files in place.
C29_Witness ==
    /\ CacheHit(1)
    /\ main[1].runs = 1
    /\ main[1].goos = Windows
    /\ main[1].actualVersion = V3
    /\ pc[1] = "done"
    /\ Len(AfterCacheCheck(trace[1])) = 1
    /\ fs = EmptyCacheFS @@ CacheFile(PrefixTailwind \o V3 \o Exe) @@ CacheFile(Other)

\* The operations of a run after it has made the new entry executable: the
\* listing and the removals of the eviction, then the start of the tool.
AfterChmod(t) ==
    IF Events(t, "chmod") = <<>> THEN <<>>
    ELSE LET i == CHOOSE j \in 1..Len(t) : t[j].op = "chmod" IN SubSeq(t, i + 1, Len(t))

\* C30: when a removal of the eviction fails (its target is still there), it
\* is the last thing the run does: the run has failed with the error of that
\* removal wrapped as a failure to delete the older version and has not
\* started the tool; the files removed before it are gone, and the entries
\* that come after it in the listing are in place as they were.
C30_FailedRemovalEndsEviction ==
    \A p \in Procs :
       top[p] = "execute" =>
          LET u == AfterChmod(trace[p]) IN
          \A k \in 1..Len(u) :
             (u[k].op = "remove" /\ Loc(u[k].arg) \in DOMAIN fs) =>
                /\ k = Len(u)
                /\ pc[p] = "failed"
                /\ ret[p] = <<"failed to delete older version", "os.Remove">>
                /\ Events(trace[p], "run") = <<>>
                /\ \A j \in 1..(k - 1) : u[j].op = "remove" => Loc(u[j].arg) \notin DOMAIN fs
                /\ \A q \in DOMAIN fs0[p] :
                      (Len(q) = Len(Loc(main[p].downloadDir)) + 1
                         /\ Front(q) = Loc(main[p].downloadDir)
                         /\ StrLess(Last(Loc(u[k].arg)), Last(q))
                         /\ q # Loc(main[p].filePath))
                      => (q \in DOMAIN fs /\ fs[q] = fs0[p][q])

\* C30 witness: a run for v4 on a cache that held two older files has removed
\* the first of them and failed at the second, which is still there.
C30_Witness ==
    /\ top[1] = "execute" /\ pc[1] = "failed"
    /\ main[1].actualVersion = V4
    /\ LET u == AfterChmod(trace[1]) IN
       /\ Len(Events(u, "remove")) = 2
       /\ Loc(u[Len(u) - 1].arg) \in DOMAIN fs0[1] \ DOMAIN fs
       /\ Loc(u[Len(u)].arg) = Append(Loc(CacheDir), PrefixTailwind \o V3)
       /\ Loc(u[Len(u)].arg) \in DOMAIN fs
    /\ ret[1] = <<"failed to delete older version", "os.Remove">>

(***************************************************************************)
(* Claims about runs that follow one another on a machine (Spec).          *)
(***************************************************************************)
\* The prefixed files of other versions than the one the run of process p
\* resolved to that were in the cache when the run began.
StaleAtStart(p) ==
    {q \in PrefixedFiles(fs0[p]) : VersionOfName(Last(q)) # main[p].actualVersion}

\* C31 as claimed: when the eviction of a run for version V was ended by a
\* failed removal and the next run resolves to V again, with stale files
\* still in the cache, that run has tried to remove every one of them by the
\* time it starts the tool.
C31_NextRunRetriesEviction ==
    \A p \in Procs :
       (top[p] = "execute"
          /\ main[p].aborted = <<main[p].actualVersion>>
          /\ Events(trace[p], "run") # <<>>)
       => \A q \in StaleAtStart(p) :
             \E k \in 1..Len(trace[p]) :
                trace[p][k].op = "remove" /\ Loc(trace[p][k].arg) = q

(***************************************************************************)
(* Claims about two launchers at once (SpecTwo).                           *)
(***************************************************************************)
\* The run of process p has downloaded its entry and made it executable, and
\* has not started it yet.
InstalledNotInvoked(p) ==
    /\ Events(trace[p], "chmod") # <<>>
    /\ pc[p] \in {"DeleteOtherVersions", "evictLoop", "run"}

\* The run of process q has removed the entry of process p in its eviction.
EvictedBy(q, p) ==
    /\ main[q].actualVersion # main[p].actualVersion
    /\ \E k \in 1..Len(AfterChmod(trace[q])) :
          AfterChmod(trace[q])[k] = Ev("remove", main[p].filePath)

\* C32: nothing keeps the eviction of one run from the entry of another.
\* Whenever the entry a run has installed and not yet started is gone, it is
\* the run of the other process, for another version, that has removed it in
\* its eviction; a run never removes its own entry, and there is no lock in
\* the cache directory a run could have waited for.
C32_EvictionOfOtherRunRemovesEntry ==
    /\ \A q \in DOMAIN fs : Len(q) = Len(Loc(CacheDir)) + 1 /\ Front(q) = Loc(CacheDir)
          => HasPrefix(Last(q), PrefixTailwind)
    /\ \A p, q \in Procs :
          (p # q /\ InstalledNotInvoked(p) /\ Loc(main[p].filePath) \notin DOMAIN fs)
          => EvictedBy(q, p)

\* C32 witness: process 1 has installed v3 and stands before its start, and
\* the eviction of process 2, which installed v4, has removed the entry of v3.
C32_Witness ==
    /\ InstalledNotInvoked(1) /\ pc[1] = "run"
    /\ main[1].actualVersion = V3 /\ main[2].actualVersion = V4
    /\ Loc(main[1].filePath) \notin DOMAIN fs
    /\ EvictedBy(2, 1)
    /\ Loc(main[2].filePath) \in DOMAIN fs

(***************************************************************************)
(* Claims about what Download leaves alone (SpecDownload).                 *)
(***************************************************************************)
\* A location below the cache directory.
InCache(q) ==
    Len(q) > Len(Loc(CacheDir)) /\ SubSeq(q, 1, Len(Loc(CacheDir))) = Loc(CacheDir)

\* C33 as claimed: every entry outside the cache directory that existed when
\* Download was called exists unchanged at every point of the call, also when
\* the destination is a path outside the cache directory that Write refuses.
C33_DownloadKeepsOutsideFiles ==
    \A q \in DOMAIN fs0[1] :
       ~InCache(q) => (q \in DOMAIN fs /\ fs[q] = fs0[1][q])

(***************************************************************************)
(* Claims about the version the user names (SpecVersions).                 *)
(***************************************************************************)
\* C34 as claimed: whatever version the user names, the path the launcher
\* starts is that of an entry directly in the cache directory.
C34_InvokedFileIsInCacheDirectory ==
    \A p \in Procs :
       top[p] = "execute" =>
          \A k \in 1..Len(trace[p]) :
             trace[p][k].op = "run" =>
                LET q == Loc(trace[p][k].arg.path) IN
                /\ Len(q) = Len(Loc(main[p].downloadDir)) + 1
                /\ Front(q) = Loc(main[p].downloadDir)

(***************************************************************************)
(* Claims about the cache over several runs (Spec).                        *)
(***************************************************************************)
\* C35 as claimed: the entry that the cache check of a second or later run on
\* the machine finds for the resolved version is a file that holds a whole
\* body (one the server sends, or the contents of a file that was in the
\* cache before the first run) and is executable.
C35_FoundEntryIsCompleteAndExecutable ==
    \A p \in Procs :
       (CacheHit(p) /\ main[p].runs > 1 /\ pc[p] = "run") =>
          LET e == fs0[p][EntryOf(p)] IN
          /\ e.kind = "file"
          /\ e.exec
          /\ e.data \in server.bodies \cup {<<"o">>}

(***************************************************************************)
(* Claims about the entry of the version being installed (SpecEvict).      *)
(***************************************************************************)
\* C36 as claimed: DeleteOtherVersions(dir, V) never removes the entry the
\* launcher creates for V: the file named tailwindcss-V, or tailwindcss-V.exe
\* on windows, is in the directory at every point of the eviction when it was
\* there at its start.
C36_EvictKeepsEntryOfVersion ==
    \A p \in Procs :
       top[p] = "DeleteOtherVersions" =>
          \A name \in {<<"t", "a", "i", "l", "w", "i", "n", "d", "c", "s", "s", "-">> \o ev[p].version,
                       <<"t", "a", "i", "l", "w", "i", "n", "d", "c", "s", "s", "-">> \o ev[p].version
                          \o <<".", "e", "x", "e">>} :
             LET q == Append(Loc(ev[p].downloadDir), name) IN
             (q \in DOMAIN fs0[p] /\ fs0[p][q].kind = "file") => q \in DOMAIN fs

(***************************************************************************)
(* Claims about a failed upgrade (Spec).                                   *)
(***************************************************************************)
\* The run has ended at line 97 or at line 100 of execute.
UpgradeFailed(p) ==
    /\ pc[p] = "failed"
    /\ Len(ret[p]) > 0
    /\ ret[p][1] \in {"failed to download tailwind", "failed to make tailwind executable"}

\* C37: in a run where Download or MakeExecutable fails, every entry of the
\* cache directory other than the one of the version being installed is as
\* it was when the run started, and the eviction starts only with the new
\* entry in place and executable.
C37_FailedUpgradeKeepsOtherVersions ==
    \A p \in Procs :
       /\ UpgradeFailed(p) =>
             \A q \in DOMAIN fs0[p] :
                (InCache(q) /\ q # EntryOf(p)) => (q \in DOMAIN fs /\ fs[q] = fs0[p][q])
       /\ (top[p] = "execute" /\ pc[p] = "DeleteOtherVersions") =>
             /\ EntryOf(p) \in DOMAIN fs
             /\ fs[EntryOf(p)].kind = "file"
             /\ fs[EntryOf(p)].exec

\* A download of v4 has failed after its three attempts and their cleanups,
\* with tailwindcss-v3 in the cache at the start of the run and still there.
C37_Witness ==
    \E p \in Procs :
       /\ UpgradeFailed(p)
       /\ ret[p][1] = "failed to download tailwind"
       /\ main[p].actualVersion = <<"v", "4">>
       /\ StaleAtStart(p) # {}
       /\ StaleAtStart(p) \subseteq DOMAIN fs
       /\ \E i \in 1..Len(trace[p]) : trace[p][i].op = "remove"

\* The same after a chmod that failed on the entry just downloaded.
C37_WitnessChmod ==
    \E p \in Procs :
       /\ UpgradeFailed(p)
       /\ ret[p][1] = "failed to make tailwind executable"
       /\ StaleAtStart(p) # {}
       /\ StaleAtStart(p) \subseteq DOMAIN fs
       /\ EntryOf(p) \in DOMAIN fs

(***************************************************************************)
(* Claims about the fallback on the entry a run has installed              *)
(* (SpecFallback).                                                         *)
(***************************************************************************)
\* The entries of the cache directory in f.
CacheEntries(f) ==
    {q \in DOMAIN f : Len(q) = Len(Loc(CacheDir)) + 1 /\ InCache(q)}

\* The name execute gives the entry of a version on the platform of p.
EntryNameOf(p, version) ==
    <<"t", "a", "i", "l", "w", "i", "n", "d", "c", "s", "s", "-">> \o version
    \o (IF main[p].goos = <<"w", "i", "n", "d", "o", "w", "s">>
        THEN <<".", "e", "x", "e">> ELSE <<>>)

\* The run started with exactly the entry of the version in the cache
\* directory, as an executable file.
HoldsOnly(p, version) ==
    LET q == Append(Loc(CacheDir), EntryNameOf(p, version)) IN
    /\ CacheEntries(fs0[p]) = {q}
    /\ fs0[p][q].kind = "file"
    /\ fs0[p][q].exec

\* The run has got a version from GetCurrentVersion after ErrHTTP.
FellBack(p) ==
    /\ top[p] = "execute"
    /\ main[p].verErr # Nil
    /\ \E i \in 1..Len(main[p].verErr) : main[p].verErr[i] = "ErrHTTP"
    /\ pc[p] \in {"Exists", "Download", "downloadAttempt", "downloadCleanup", "downloadSleep",
                  "MakeExecutable", "DeleteOtherVersions", "run", "cmd.Wait", "done"}

\* C38 as claimed: when the cache directory holds exactly the entry of a
\* version V, v4 or v4.exe, a run that falls back gets V from
\* GetCurrentVersion, checks the path of that same entry and goes on to invoke
\* it, with no request other than the one for the latest release.
C38_FallbackFindsInstalledEntry ==
    \A p \in Procs : \A version \in {<<"v", "4">>, <<"v", "4", ".", "e", "x", "e">>} :
       (FellBack(p) /\ HoldsOnly(p, version)) =>
          /\ main[p].actualVersion = version
          /\ pc[p] \in {"Exists", "run", "cmd.Wait", "done"}
          /\ pc[p] # "Exists" =>
                Loc(main[p].filePath) = Append(Loc(CacheDir), EntryNameOf(p, version))
          /\ Len(Events(trace[p], "GET")) = 1

\* The part of C38 that holds: the same for the version v4 alone.
C38_FallbackFindsEntryWithoutExe ==
    \A p \in Procs :
       (FellBack(p) /\ HoldsOnly(p, <<"v", "4">>)) =>
          /\ main[p].actualVersion = <<"v", "4">>
          /\ pc[p] \in {"Exists", "run", "cmd.Wait", "done"}
          /\ pc[p] # "Exists" =>
                Loc(main[p].filePath) = Append(Loc(CacheDir), EntryNameOf(p, <<"v", "4">>))
          /\ Len(Events(trace[p], "GET")) = 1

\* A run has fallen back with only the entry of v4.exe in the cache of a
\* linux machine.
C38_ExeVersionInstalled ==
    \E p \in Procs :
       /\ FellBack(p)
       /\ main[p].goos = <<"l", "i", "n", "u", "x">>
       /\ HoldsOnly(p, <<"v", "4", ".", "e", "x", "e">>)

(***************************************************************************)
(* Claims about the version GetLatestVersion returns (SpecLatest).         *)
(***************************************************************************)
\* C39 as claimed: whenever GetLatestVersion has returned a nil error, the
\* version it has returned is not the empty string.
C39_ReturnedVersionIsNonEmpty ==
    \A p \in Procs :
       (top[p] = "GetLatestVersion" /\ pc[p] = "returned" /\ ret[p] = Nil) =>
          lat[p].version # <<>>

====
